---- MODULE Spec2Model ----
(***************************************************************************)
(* Polling clients of the soundtrack generator.                            *)
(*                                                                         *)
(* Four poll loops are modelled, one per source file:                      *)
(*   "suno"    pollForMusic of src/services/sunoService.ts                 *)
(*   "gemini"  pollForMusic of src/services/geminiService.ts               *)
(*   "part000" pollForMusic of src/unnamed/part_000                        *)
(*   "udio"    pollForTrack of src/services/udioService.ts                 *)
(* One behaviour is one call of one of them.  One action is one iteration  *)
(* of the loop: the sleep, the status request, the handling of its answer  *)
(* and, after the last iteration, the throw that follows the loop (no      *)
(* await separates the two).  The answer of the status endpoint is the     *)
(* input of an iteration and is drawn from a small set.                    *)
(***************************************************************************)
EXTENDS Integers, Sequences, FiniteSets, TLC

VARIABLES
    variant,            \* which poll function this call runs
    pc,                 \* "polling" while the loop runs, "done" once settled
    i,                  \* the loop variable (i / attempt)
    consecutiveErrors,  \* let consecutiveErrors (suno, gemini); 0 elsewhere
    lastKnown,          \* lastKnownData (suno) / lastKnownStatus (gemini)
    outcome,            \* how the promise settled
    result,             \* SunoTask[] a pollForMusic call resolved with
    audioUrl,           \* string a pollForTrack call resolved with
    requests,           \* number of status requests issued (fetch calls)
    progress,           \* onProgress notifications of the last iteration
    last,               \* the answer the last status request got
    failedRun,          \* history: failed answers since the last well-formed one
    netRun,             \* history: fetch rejections in a row, capped
    allPending,         \* history: every answer so far was a plain PENDING
    resetAtBrink,       \* history: the last answer was well-formed, after ErrorBudget - 1 failed ones
    allEmptySuccess,    \* history: every answer so far was SUCCESS without audio
    lastReported,       \* history: status of the latest answer that had a data object
    fractions,          \* history: completion fractions onProgress was given (part_000)
    submission,         \* the generateMusic / generateTrack call: inputs, requests, outcome
    extraction,         \* one status payload and the tracks the handler took from it
    pair,               \* two poll calls in progress at once: memory, promises, answers heard
    app,                \* App: isLoading, error, analysis and the handleAnalyzeScript runs
    timeline,           \* where in its iteration the loop is: sleeps and requests so far
    panel,              \* MusicGenerationPanel: its state and the handleGenerate flow
    api                 \* api/gemini-analyze: the request, the upstream call, the responses

vars == <<variant, pc, i, consecutiveErrors, lastKnown, outcome, result,
          audioUrl, requests, progress, last, failedRun, netRun, allPending,
          resetAtBrink, allEmptySuccess, lastReported, fractions, submission,
          extraction, pair, app, timeline, panel, api>>

pollVars == <<variant, pc, i, consecutiveErrors, lastKnown, outcome, result,
              audioUrl, requests, progress, last, failedRun, netRun, allPending,
              resetAtBrink, allEmptySuccess, lastReported, fractions>>

----------------------------------------------------------------------------
(* Program constants *)

SUNO_MAX_ATTEMPTS == 120
GEMINI_MAX_ATTEMPTS == 60
PART000_MAX_ATTEMPTS == 60
UDIO_MAX_ATTEMPTS == 30

\* consecutiveErrors >= 5
ErrorBudget == 5
\* i < MAX_ATTEMPTS - 5
SunoGrace == 5

(* Bounds of the inputs *)
MaxTracks == 2
MaxFeed == 2
\* How far consecutiveErrors may pass the budget on answers whose body
\* cannot be read
MaxOverrun == 1

\* const INTERVAL
SUNO_INTERVAL == 5000
GEMINI_INTERVAL == 5000
PART000_INTERVAL == 5000
UDIO_INTERVAL == 10000

INTERVAL(v) ==
    CASE v = "suno" -> SUNO_INTERVAL
      [] v = "gemini" -> GEMINI_INTERVAL
      [] v = "part000" -> PART000_INTERVAL
      [] v = "udio" -> UDIO_INTERVAL

Variants == {"suno", "gemini", "part000", "udio"}

MAX_ATTEMPTS(v) ==
    CASE v = "suno" -> SUNO_MAX_ATTEMPTS
      [] v = "gemini" -> GEMINI_MAX_ATTEMPTS
      [] v = "part000" -> PART000_MAX_ATTEMPTS
      [] v = "udio" -> UDIO_MAX_ATTEMPTS

----------------------------------------------------------------------------
(* The answers of the status endpoint *)

\* taskId / workId of the polled job
TaskId == "job1"
OtherId == "job2"

\* Track k of an upstream track array: its id, and its audio URL when present
IdAt(k) == <<"t1", "t2", "t3", "t4">>[k]
UrlAt(k) == <<"u1", "u2", "u3", "u4">>[k]

RECURSIVE TrackListsOfLen(_)
TrackListsOfLen(n) ==
    IF n = 0 THEN {<< >>}
    ELSE { Append(s, [id |-> IdAt(n), audio |-> a]) :
             s \in TrackListsOfLen(n - 1), a \in {"", UrlAt(n)} }

TrackLists == UNION { TrackListsOfLen(n) : n \in 0..MaxTracks }

\* Entries of the udio feed
FeedEntry(id, st, url) == [id |-> id, status |-> st, audio_url |-> url]

FeedEntries ==
    {FeedEntry(TaskId, "PENDING", ""), FeedEntry(TaskId, "SUCCESS", "u1"),
     FeedEntry(TaskId, "SUCCESS", ""), FeedEntry(TaskId, "FAILED", ""),
     FeedEntry(OtherId, "SUCCESS", "u9")}

RECURSIVE FeedsOfLen(_)
FeedsOfLen(n) ==
    IF n = 0 THEN {<< >>}
    ELSE { Append(s, e) : s \in FeedsOfLen(n - 1), e \in FeedEntries }

Feeds == UNION { FeedsOfLen(n) : n \in 0..MaxFeed }

(* kind: "netfail"  fetch rejected                                        *)
(*       "http"     response.ok is false                                   *)
(*       "badjson"  response.ok, response.json() rejected                  *)
(* body: the text of an answer that is not JSON, or Unreadable when         *)
(*       reading it fails                                                   *)
(*       "code"     body parsed, code is not 200                           *)
(*       "nodata"   code 200, data is null                                 *)
(*       "ok"       code 200 with a data object                            *)
Resp(k, st, em, tr, wav, fd) ==
    [kind |-> k, status |-> st, errorMessage |-> em, tracks |-> tr,
     audioWavUrl |-> wav, feed |-> fd, body |-> ""]

NoResponse == Resp("none", "", "", << >>, "", << >>)

Bare(k) == Resp(k, "", "", << >>, "", << >>)

FailureKinds == {"netfail", "http", "badjson", "code", "nodata"}

\* The body stream of the answer errors: response.text() rejects
Unreadable == "<unreadable>"

\* Bodies that are not JSON: an empty one, and texts an upstream may answer with
NonJsonBodies == {"", "Repeated API", "Suno API task failed", "Generation failed"}

\* HTTP 2xx whose body is the given text
Unparsed(body) == [Bare("badjson") EXCEPT !.body = body]

\* A non-2xx answer whose body cannot be read
Unread == [Bare("http") EXCEPT !.body = Unreadable]

BodyFailures == {Unparsed(b) : b \in NonJsonBodies} \cup {Unread}

ErrorMessages == {"", "boom"}

\* data.successFlag values of the WAV record-info endpoint ("" = absent)
SunoStatuses == {"", "PENDING", "SUCCESS", "CREATE_TASK_FAILED", "GENERATE_WAV_FAILED",
                 "CALLBACK_EXCEPTION", "SENSITIVE_WORD_ERROR", "WEIRD"}

\* data.status values of the record-info endpoint as geminiService reads it
GeminiStatuses == {"", "PENDING", "TEXT_SUCCESS", "SUCCESS", "success", "FAILED",
                   "failed", "WEIRD"}

\* data.status values of the record-info endpoint as part_000 reads it
Part000Statuses == {"", "PENDING", "TEXT_SUCCESS", "FIRST_SUCCESS", "SUCCESS",
                    "CREATE_TASK_FAILED", "GENERATE_AUDIO_FAILED", "CALLBACK_EXCEPTION",
                    "SENSITIVE_WORD_ERROR", "GENERATE_WAV_FAILED", "WEIRD"}

\* An errorMessage accompanies the statuses that report a problem
MessagesFor(st) ==
    IF st \in {"CREATE_TASK_FAILED", "GENERATE_WAV_FAILED", "GENERATE_AUDIO_FAILED",
               "CALLBACK_EXCEPTION", "SENSITIVE_WORD_ERROR", "FAILED", "failed"}
    THEN ErrorMessages ELSE {""}

SunoResponses ==
    { Bare(k) : k \in FailureKinds } \cup BodyFailures
    \cup { Resp("ok", st, em, << >>, wav, << >>) :
             st \in SunoStatuses, em \in ErrorMessages, wav \in {"", "u1"} }

GeminiResponses ==
    { Bare(k) : k \in FailureKinds } \cup BodyFailures
    \cup UNION { { Resp("ok", st, em, tr, "", << >>) : em \in MessagesFor(st), tr \in TrackLists }
                 : st \in GeminiStatuses }

Part000Responses ==
    { Bare(k) : k \in FailureKinds } \cup BodyFailures
    \cup UNION { { Resp("ok", st, em, tr, "", << >>) : em \in MessagesFor(st), tr \in TrackLists }
                 : st \in Part000Statuses }

\* pollForTrack never reads code: a body with another code is handled as any other
UdioResponses ==
    { Bare(k) : k \in {"netfail", "http", "badjson"} } \cup BodyFailures
    \cup { Resp("ok", "", "", << >>, "", fd) : fd \in Feeds }
    \cup { Resp("code", "", "", << >>, "", fd) : fd \in FeedsOfLen(0) \cup FeedsOfLen(1) }

----------------------------------------------------------------------------
(* Errors.  An error is its message: the fixed text and what is spliced in. *)

Err(text, detail) == [text |-> text, detail |-> detail, extra |-> ""]
\* A timeout message with the last known status and error
ErrLast(text, st, em) == [text |-> text, detail |-> st, extra |-> em]
NoError == Err("", "")

\* Exceptions the platform raises
FetchRejected == Err("TypeError: fetch failed", "")
\* response.json() on a body that is not JSON: the SyntaxError quotes the body
JsonRejected(body) == Err("SyntaxError: is not valid JSON: ", body)
\* response.text() on a body stream that errors
TextRejected == Err("TypeError: terminated", "")
NullDeref == Err("TypeError: cannot read properties of null", "")
UndefinedDeref == Err("TypeError: cannot read properties of undefined", "")

\* String.prototype.includes on the fixed texts of the messages above and below
TextIncludes(text, pat) ==
    CASE pat = "Repeated API" ->
            text \in {"Repeated API errors", "Repeated API error code"}
      [] pat = "Suno API task failed" ->
            text = "Suno API task failed: "
      [] pat = "Generation marked as complete" ->
            text \in {"Generation marked as complete but audio URL was never provided",
                      "Generation marked as complete, but audio URLs were missing from the response.",
                      "Generation marked as complete, but no track data was returned."}
      [] pat = "Generation failed" ->
            text = "Generation failed: "
      [] OTHER -> FALSE

\* The same on what is spliced into a message: of the texts that occur, the
\* ones that contain a pattern are the patterns themselves
Quotes(spliced, pat) == spliced = pat

\* e.message.includes(pat)
MessageIncludes(e, pat) ==
    \/ TextIncludes(e.text, pat)
    \/ Quotes(e.detail, pat)
    \/ Quotes(e.extra, pat)

\* x || y on strings
OrElse(x, y) == IF x # "" THEN x ELSE y

\* What one iteration leaves behind
Step(verdict, ce, lk, err, res, url, prog) ==
    [verdict |-> verdict, ce |-> ce, lk |-> lk, error |-> err, result |-> res,
     url |-> url, progress |-> prog]

Continue(ce, lk, prog) == Step("continue", ce, lk, NoError, << >>, "", prog)
Throw(ce, lk, err, prog) == Step("throw", ce, lk, err, << >>, "", prog)
Return(ce, lk, res, prog) == Step("return", ce, lk, NoError, res, "", prog)

\* An onProgress notification: its fixed text, what is spliced in, the attempt
\* it names and the completion fraction (NoValue when none is passed)
NoValue == -1
Note(text, arg, n, value) == [text |-> text, arg |-> arg, n |-> n, value |-> value]

\* if (consecutiveErrors >= 5) throw ...
BudgetSpent(n) == n >= ErrorBudget

\* consecutiveErrors = 0
ResetErrors_Kept(ce) == ce
ResetErrors(ce) == 0

\* lastKnownData / lastKnownStatus
LK(st, em) == [known |-> TRUE, status |-> st, errorMessage |-> em]
NoLK == [known |-> FALSE, status |-> "", errorMessage |-> ""]

\* SunoTask
SunoTask(id, url) == [id |-> id, status |-> "SUCCESS", audio_url |-> url]

----------------------------------------------------------------------------
(* pollForMusic of sunoService.ts *)

SunoFailureStatuses == {"CREATE_TASK_FAILED", "GENERATE_WAV_FAILED", "CALLBACK_EXCEPTION"}

\* if (i < MAX_ATTEMPTS - 5) continue: keep polling for the URL to appear
InGrace_OffByOne(k) == k <= SUNO_MAX_ATTEMPTS - SunoGrace
InGrace(k) == k < SUNO_MAX_ATTEMPTS - SunoGrace

\* The body of the try block of one iteration
SunoTry(k, ce, lk, r) ==
    CASE r.kind = "netfail" -> Throw(ce, lk, FetchRejected, << >>)
      [] r.kind = "http" ->
            IF r.body = Unreadable
            THEN Throw(ce + 1, lk, TextRejected, << >>)
            ELSE IF BudgetSpent(ce + 1)
            THEN Throw(ce + 1, lk, Err("Repeated API errors", "http"), << >>)
            ELSE Continue(ce + 1, lk, <<Note("Connection issue... retrying", "", k + 1, NoValue)>>)
      [] r.kind = "badjson" -> Throw(ce, lk, JsonRejected(r.body), << >>)
      [] r.kind = "code" ->
            IF BudgetSpent(ce + 1)
            THEN Throw(ce + 1, lk, Err("Repeated API error code", "code"), << >>)
            ELSE Continue(ce + 1, lk, <<Note("API Error: ", "", k + 1, NoValue)>>)
      [] r.kind = "nodata" ->
            Continue(ResetErrors(ce), NoLK, <<Note("Waiting for data...", "", k + 1, NoValue)>>)
      [] r.kind = "ok" ->
            LET status == OrElse(r.status, "UNKNOWN")
                data == LK(r.status, r.errorMessage)
                prog == <<Note("Status: ", status, k + 1, NoValue)>>
            IN  IF status = "SUCCESS"
                THEN IF r.audioWavUrl # ""
                     THEN Return(ResetErrors(ce), data, <<SunoTask(TaskId, r.audioWavUrl)>>, prog)
                     ELSE IF InGrace(k)
                          THEN Continue(ResetErrors(ce), data, prog)
                          ELSE Throw(ResetErrors(ce), data,
                                 Err("Generation marked as complete but audio URL was never provided", ""),
                                 prog)
                ELSE IF status \in SunoFailureStatuses
                     THEN Throw(ResetErrors(ce), data,
                            Err("Suno API task failed: ", OrElse(r.errorMessage, "Unknown error")),
                            prog)
                     ELSE Continue(ResetErrors(ce), data, prog)

SunoIsFatal_TaskFailureSwallowed(e) ==
    \/ MessageIncludes(e, "Repeated API")
    \/ MessageIncludes(e, "Generation marked as complete")

SunoIsFatal(e) ==
    \/ MessageIncludes(e, "Repeated API")
    \/ MessageIncludes(e, "Suno API task failed")
    \/ MessageIncludes(e, "Generation marked as complete")

\* One iteration: the try block and its catch
SunoIteration(k, ce, lk, r) ==
    LET t == SunoTry(k, ce, lk, r)
    IN  IF t.verdict = "throw" /\ ~SunoIsFatal(t.error)
        THEN Continue(t.ce, t.lk,
                      Append(t.progress, Note("Polling error, continuing...", "", k + 1, NoValue)))
        ELSE t

\* The throw after the loop
SunoTimeout(lk) ==
    IF lk.known
    THEN ErrLast("Timeout waiting for music generation after ",
                 OrElse(lk.status, "UNKNOWN"), lk.errorMessage)
    ELSE Err("Timeout waiting for music generation after ", "")

----------------------------------------------------------------------------
(* pollForMusic of geminiService.ts *)

\* String.prototype.toUpperCase on the status strings
ToUpperCase(s) ==
    CASE s = "success" -> "SUCCESS"
      [] s = "failed" -> "FAILED"
      [] OTHER -> s

\* getAudioUrl
getAudioUrl(t) == t.audio

\* tracks.filter(t => getAudioUrl(t))
RECURSIVE FilterValid(_)
FilterValid(tracks) ==
    IF tracks = << >> THEN << >>
    ELSE IF getAudioUrl(Head(tracks)) # ""
         THEN <<Head(tracks)>> \o FilterValid(Tail(tracks))
         ELSE FilterValid(Tail(tracks))

\* id of a track that has none: gen-<Date.now()>-<Math.random()>
SynthId(pos) == <<"gen-1", "gen-2", "gen-3", "gen-4">>[pos]

GeminiMap(valid) ==
    [p \in 1..Len(valid) |->
        SunoTask(IF valid[p].id # "" THEN valid[p].id ELSE SynthId(p), getAudioUrl(valid[p]))]

GeminiTry(k, ce, lk, r) ==
    CASE r.kind = "netfail" -> Throw(ce, lk, FetchRejected, << >>)
      [] r.kind = "http" ->
            IF r.body = Unreadable
            THEN Throw(ce + 1, lk, TextRejected, << >>)
            ELSE IF BudgetSpent(ce + 1)
            THEN Throw(ce + 1, lk, Err("Repeated API errors", "http"), << >>)
            ELSE Continue(ce + 1, lk, <<Note("Connection issue... retrying", "", k + 1, NoValue)>>)
      [] r.kind = "badjson" -> Throw(ce, lk, JsonRejected(r.body), << >>)
      [] r.kind = "code" ->
            IF BudgetSpent(ce + 1)
            THEN Throw(ce + 1, lk, Err("Repeated API error code", "code"), << >>)
            ELSE Continue(ce + 1, lk, << >>)
      [] r.kind = "nodata" ->
            Continue(ResetErrors(ce), lk, <<Note("Waiting for data...", "", k + 1, NoValue)>>)
      [] r.kind = "ok" ->
            LET status == ToUpperCase(OrElse(r.status, "UNKNOWN"))
                known == LK(status, "")
                prog == <<Note("Status: ", status, k + 1, NoValue)>>
                tracks == r.tracks
                validTracks == FilterValid(tracks)
            IN  IF Len(tracks) > 0 /\ Len(validTracks) > 0
                THEN Return(ResetErrors(ce), known, GeminiMap(validTracks), prog)
                ELSE IF status = "SUCCESS"
                     THEN IF Len(tracks) > 0
                          THEN Throw(ResetErrors(ce), known,
                                 Err("Generation marked as complete, but audio URLs were missing from the response.", ""),
                                 prog)
                          ELSE Throw(ResetErrors(ce), known,
                                 Err("Generation marked as complete, but no track data was returned.", ""),
                                 prog)
                     ELSE IF status = "FAILED"
                          THEN Throw(ResetErrors(ce), known,
                                 Err("Suno API task failed: ", OrElse(r.errorMessage, "Unknown error")),
                                 prog)
                          ELSE Continue(ResetErrors(ce), known, prog)

GeminiIsFatal(e) ==
    \/ MessageIncludes(e, "Repeated API")
    \/ MessageIncludes(e, "Suno API task failed")
    \/ MessageIncludes(e, "Generation marked as complete")

GeminiIteration(k, ce, lk, r) ==
    LET t == GeminiTry(k, ce, lk, r)
    IN  IF t.verdict = "throw" /\ ~GeminiIsFatal(t.error)
        THEN Continue(t.ce, t.lk, t.progress)
        ELSE t

GeminiTimeout(lk) == Err("Timeout waiting for music generation. Last known status: ", lk.status)

----------------------------------------------------------------------------
(* pollForMusic of part_000 *)

\* status.includes('FAILED') || status.includes('ERROR')

\* The test is on substrings: of the status names that occur, these contain
\* FAILED or ERROR ("failed" does not: the test is case-sensitive)
ContainsFailedOrError(st) ==
    st \in {"FAILED", "ERROR", "TASK_ERROR", "CREATE_TASK_FAILED",
             "GENERATE_AUDIO_FAILED", "GENERATE_WAV_FAILED", "SENSITIVE_WORD_ERROR"}

\* The switch over status: the message and the completion fraction
Part000Progress(st, k) ==
    CASE st = "PENDING" -> Note("Task queued...", "", k + 1, 10)
      [] st = "TEXT_SUCCESS" -> Note("Text generation complete, generating audio...", "", k + 1, 40)
      [] st = "FIRST_SUCCESS" -> Note("First part audio generated...", "", k + 1, 70)
      [] st = "SUCCESS" -> Note("Audio generation complete!", "", k + 1, 100)
      [] OTHER -> Note("Status: ", st, k + 1, NoValue)

Part000SwitchThrows(st) ==
    st \in {"CREATE_TASK_FAILED", "GENERATE_AUDIO_FAILED", "CALLBACK_EXCEPTION",
             "SENSITIVE_WORD_ERROR"}

\* sunoData.map(track => ({ id: track.id, audio_url: track.audioUrl, ... }))
Part000Map(sunoData) ==
    [p \in 1..Len(sunoData) |-> SunoTask(sunoData[p].id, sunoData[p].audio)]

Part000Try(k, ce, lk, r) ==
    CASE r.kind = "netfail" -> Throw(ce, lk, FetchRejected, << >>)
      [] r.kind = "http" ->
            Continue(ce, lk, <<Note("Request failed, retrying...", "", k + 1, NoValue)>>)
      [] r.kind = "badjson" -> Throw(ce, lk, JsonRejected(r.body), << >>)
      [] r.kind = "code" ->
            Continue(ce, lk, <<Note("API error, retrying...", "", k + 1, NoValue)>>)
      [] r.kind = "nodata" -> Throw(ce, lk, NullDeref, << >>)
      [] r.kind = "ok" ->
            LET status == r.status
                prog == <<Part000Progress(status, k)>>
                sunoData == r.tracks
            IN  IF Part000SwitchThrows(status)
                THEN Throw(ce, lk, Err("Generation failed: ", OrElse(r.errorMessage, status)), << >>)
                ELSE IF status = "SUCCESS"
                     THEN IF Len(sunoData) > 0
                          THEN Return(ce, lk, Part000Map(sunoData), prog)
                          ELSE Throw(ce, lk,
                                 Err("Generation completed but no audio data returned", ""), prog)
                     ELSE IF status = ""
                          THEN Throw(ce, lk, UndefinedDeref, prog)
                          ELSE IF ContainsFailedOrError(status)
                               THEN Throw(ce, lk,
                                      Err("Generation failed: ", OrElse(r.errorMessage, status)),
                                      prog)
                               ELSE Continue(ce, lk, prog)

Part000IsFatal(e) == MessageIncludes(e, "Generation failed")

Part000Iteration(k, ce, lk, r) ==
    LET t == Part000Try(k, ce, lk, r)
    IN  IF t.verdict = "throw" /\ ~Part000IsFatal(t.error)
        THEN Continue(t.ce, t.lk,
                      Append(t.progress, Note("Connection issue, retrying...", "", k + 1, NoValue)))
        ELSE t

Part000Timeout(lk) == Err("Generation timeout, please try again later", "")

----------------------------------------------------------------------------
(* pollForTrack of udioService.ts *)

\* res.data?.find(t => t.id === workId): the position of the first match, 0 if none
RECURSIVE FindFrom(_, _, _)
FindFrom(feed, workId, p) ==
    IF p > Len(feed) THEN 0
    ELSE IF feed[p].id = workId THEN p
         ELSE FindFrom(feed, workId, p + 1)

Find_Foremost(feed, workId) == IF Len(feed) > 0 THEN 1 ELSE 0
Find(feed, workId) == FindFrom(feed, workId, 1)

UdioTry(k, ce, lk, r) ==
    CASE r.kind = "netfail" -> Throw(ce, lk, FetchRejected, << >>)
      [] r.kind = "http" -> Continue(ce, lk, << >>)
      [] r.kind = "badjson" -> Throw(ce, lk, JsonRejected(r.body), << >>)
      [] r.kind \in {"ok", "code"} ->
            LET p == Find(r.feed, TaskId)
            IN  IF p = 0
                THEN Continue(ce, lk, << >>)
                ELSE LET track == r.feed[p]
                     IN  IF track.status = "SUCCESS" /\ track.audio_url # ""
                         THEN Step("return", ce, lk, NoError, << >>, track.audio_url, << >>)
                         ELSE IF track.status = "FAILED"
                              THEN Throw(ce, lk, Err("Udio generation failed.", ""), << >>)
                              ELSE Continue(ce, lk, << >>)

\* catch (e) { console.warn(...) }: nothing is rethrown
UdioIsFatal(e) == FALSE

UdioIteration(k, ce, lk, r) ==
    LET t == UdioTry(k, ce, lk, r)
    IN  IF t.verdict = "throw" /\ ~UdioIsFatal(t.error)
        THEN Continue(t.ce, t.lk, t.progress)
        ELSE t

UdioTimeout(lk) == Err("Timeout waiting for audio generation.", "")

----------------------------------------------------------------------------
(* The state machine: one call of one poll function *)

Returned == [kind |-> "returned", error |-> NoError]
Rejected(e) == [kind |-> "rejected", error |-> e]
Unsettled == [kind |-> "none", error |-> NoError]

\* HTTP 2xx with code 200
WellFormed(r) == r.kind \in {"ok", "nodata"}
\* non-2xx, or a payload code other than 200
FailedAnswer(r) == r.kind \in {"http", "code"}

\* A PENDING answer that carries no audio
PlainPending(v, r) ==
    /\ r.kind = "ok"
    /\ CASE v = "suno" -> r.status = "PENDING"
         [] v = "gemini" -> r.status = "PENDING" /\ FilterValid(r.tracks) = << >>
         [] v = "part000" -> r.status = "PENDING"
         [] v = "udio" -> /\ Find(r.feed, TaskId) # 0
                          /\ r.feed[Find(r.feed, TaskId)].status = "PENDING"

\* A SUCCESS answer of the WAV endpoint without audioWavUrl
EmptySuccess(v, r) ==
    /\ r.kind = "ok"
    /\ v = "suno"
    /\ r.status = "SUCCESS"
    /\ r.audioWavUrl = ""

\* No answer with a data object yet
NotReported == "<none>"

\* What the caller of onProgress has seen: the highest fraction so far, and
\* whether the fractions never went down and nothing followed a 100
NoFractions == [top |-> NoValue, orderly |-> TRUE]

Disorder == [top |-> NoValue, orderly |-> FALSE]

RECURSIVE Observe(_, _)
Observe(h, notes) ==
    IF notes = << >> \/ ~h.orderly THEN h
    ELSE LET n == Head(notes)
             fine == h.top # 100 /\ (n.value = NoValue \/ n.value >= h.top)
         IN  Observe(IF fine
                     THEN [top |-> IF n.value > h.top THEN n.value ELSE h.top,
                           orderly |-> TRUE]
                     ELSE Disorder,
                     Tail(notes))

Min(a, b) == IF a < b THEN a ELSE b

\* for (let i = 0; i < MAX_ATTEMPTS; i++): the loop condition
----------------------------------------------------------------------------
(* Job submission: generateMusic (sunoService.ts, geminiService.ts, part_000)
   and generateTrack (udioService.ts) *)

\* A property the payload does not have (undefined)
Absent == "<undefined>"

Ids == {Absent, "", TaskId}

\* !x of a string or undefined
Falsy(x) == x = Absent \/ x = ""

\* What the submission endpoint answers; kind "netfail" is fetch rejecting,
\* "badjson" a 2xx body that is not JSON; the text of a non-2xx answer is
\* Unreadable when its body stream errors
Answer(kind, status, text, code, msg, data, taskId, workId, task_id) ==
    [kind |-> kind, status |-> status, text |-> text, code |-> code, msg |-> msg,
     data |-> data, taskId |-> taskId, workId |-> workId, task_id |-> task_id]

NoAnswer == Answer("none", 0, "", 0, "", FALSE, Absent, Absent, Absent)

HttpStatuses == {401, 500}

OkStatuses == {200, 201}

Codes == {200, 400}

RefusedAnswers ==
    {Answer("netfail", 0, "", 0, "", FALSE, Absent, Absent, Absent)}
    \cup {Answer("http", st, tx, 0, "", FALSE, Absent, Absent, Absent) :
             st \in HttpStatuses, tx \in {"", "denied", Unreadable}}
    \cup {Answer("badjson", 200, "<html>", 0, "", FALSE, Absent, Absent, Absent)}

\* { code, msg, data: { taskId } }
SunoAnswers ==
    RefusedAnswers
    \cup {Answer("json", st, "", c, m, TRUE, id, Absent, Absent) :
             st \in OkStatuses, c \in Codes, m \in {"", "limit"}, id \in Ids}
    \cup {Answer("json", st, "", c, m, FALSE, Absent, Absent, Absent) :
             st \in OkStatuses, c \in Codes, m \in {"", "limit"}}

\* { code, workId, data: { task_id } }
UdioAnswers ==
    RefusedAnswers
    \cup {Answer("json", st, "", c, "", TRUE, Absent, w, t) :
             st \in OkStatuses, c \in Codes, w \in Ids, t \in Ids}
    \cup {Answer("json", st, "", c, "", FALSE, Absent, w, Absent) :
             st \in OkStatuses, c \in Codes, w \in Ids}

Prompts == {"", "rain on a tin roof"}

ApiKeys == {"", "sk-1"}

Titles == {Absent, "", "Dusk"}

Styles == {Absent, "", "Jazz"}

\* The fetch call: POST, bearer authorization, JSON body
Request(url, key, body) == [url |-> url, authorization |-> key, body |-> body]

SubmitErr(text, code, detail) == [text |-> text, code |-> code, detail |-> detail]

Resolve(reqs, id) ==
    [requests |-> reqs, verdict |-> "return", jobId |-> id, error |-> SubmitErr("", 0, "")]

Reject(reqs, e) ==
    [requests |-> reqs, verdict |-> "throw", jobId |-> Absent, error |-> e]

\* if (!apiKey)
KeyMissing_Never(apiKey) == FALSE
KeyMissing(apiKey) == Falsy(apiKey)

\* response.ok
ResponseOk(a) == a.status \in 200..299

\* res.data.taskId, after the checks on response.ok (with the await of
\* response.text() for the error message) and res.code
SunoReadReply(reqs, a) ==
    IF ~ResponseOk(a)
    THEN IF a.text = Unreadable
         THEN Reject(reqs, SubmitErr(TextRejected.text, 0, ""))
         ELSE Reject(reqs, SubmitErr("Suno API Request Failed", a.status, a.text))
    ELSE IF a.kind = "badjson"
    THEN Reject(reqs, SubmitErr("SyntaxError: Unexpected token", 0, ""))
    ELSE IF a.code # 200
    THEN Reject(reqs, SubmitErr("Suno API Error", a.code, a.msg))
    ELSE IF ~a.data
    THEN Reject(reqs, SubmitErr("TypeError: Cannot read properties of undefined", 0, "taskId"))
    ELSE Resolve(reqs, a.taskId)

SunoBody(prompt, instrumental) ==
    [prompt |-> prompt, customMode |-> FALSE, instrumental |-> instrumental,
     model |-> "V5", style |-> Absent, title |-> Absent]

SunoGenerateMusic(prompt, apiKey, instrumental, a) ==
    IF KeyMissing(apiKey)
    THEN Reject(<< >>, SubmitErr("Suno API Key is required.", 0, ""))
    ELSE LET reqs == <<Request("suno/generate", apiKey, SunoBody(prompt, instrumental))>>
         IN  IF a.kind = "netfail"
             THEN Reject(reqs, SubmitErr("Network error during generation request", 0,
                                         "fetch failed"))
             ELSE SunoReadReply(reqs, a)

GeminiGenerateMusic(prompt, apiKey, instrumental, a) ==
    IF KeyMissing(apiKey)
    THEN Reject(<< >>, SubmitErr("Suno API Key is required.", 0, ""))
    ELSE LET reqs == <<Request("suno/generate", apiKey, SunoBody(prompt, instrumental))>>
         IN  IF a.kind = "netfail"
             THEN Reject(reqs, SubmitErr("Network error during generation request", 0,
                                         "fetch failed"))
             ELSE SunoReadReply(reqs, a)

\* style || "Cinematic", title || "Generated Soundtrack"
Part000Body(prompt, instrumental, title, style) ==
    [prompt |-> prompt, customMode |-> TRUE, instrumental |-> instrumental,
     model |-> "V5",
     style |-> IF Falsy(style) THEN "Cinematic" ELSE style,
     title |-> IF Falsy(title) THEN "Generated Soundtrack" ELSE title]

Part000GenerateMusic(prompt, apiKey, instrumental, title, style, a) ==
    IF KeyMissing(apiKey)
    THEN Reject(<< >>, SubmitErr("Suno API Key is required.", 0, ""))
    ELSE LET reqs == <<Request("part000/api/v1/generate", apiKey,
                               Part000Body(prompt, instrumental, title, style))>>
         IN  IF a.kind = "netfail"
             THEN Reject(reqs, SubmitErr("TypeError: fetch failed", 0, ""))
             ELSE SunoReadReply(reqs, a)

\* { model, gpt_description_prompt, make_instrumental }
UdioBody(prompt) ==
    [model |-> "chirp-v3-5", gpt_description_prompt |-> prompt,
     make_instrumental |-> TRUE]

\* data.workId || data.data?.task_id
UdioWorkId(a) ==
    IF ~Falsy(a.workId) THEN a.workId
    ELSE IF a.data THEN a.task_id ELSE Absent

UdioGenerateTrack(prompt, apiKey, a) ==
    IF KeyMissing(apiKey)
    THEN Reject(<< >>, SubmitErr("Udio API Key is required.", 0, ""))
    ELSE LET reqs == <<Request("udio/generate", apiKey, UdioBody(prompt))>>
         IN  IF a.kind = "netfail"
             THEN Reject(reqs, SubmitErr("TypeError: fetch failed", 0, ""))
             ELSE IF ~ResponseOk(a)
             THEN IF a.text = Unreadable
                  THEN Reject(reqs, SubmitErr(TextRejected.text, 0, ""))
                  ELSE Reject(reqs, SubmitErr("Udio API Error", a.status, a.text))
             ELSE IF a.kind = "badjson"
             THEN Reject(reqs, SubmitErr("SyntaxError: Unexpected token", 0, ""))
             ELSE IF Falsy(UdioWorkId(a))
             THEN Reject(reqs, SubmitErr("Failed to retrieve Task ID from Udio response.",
                                         0, ""))
             ELSE Resolve(reqs, UdioWorkId(a))

\* The call as the caller sees it: its arguments, the requests it sent, the
\* answer the request got (none if no request was sent) and how it settled
Called(prompt, apiKey, a, done) ==
    [pc |-> "done", prompt |-> prompt, apiKey |-> apiKey,
     answer |-> IF done.requests = << >> THEN NoAnswer ELSE a,
     requests |-> done.requests, verdict |-> done.verdict,
     jobId |-> done.jobId, error |-> done.error]

NotCalled ==
    [pc |-> "idle", prompt |-> "", apiKey |-> "", answer |-> NoAnswer,
     requests |-> << >>, verdict |-> "none", jobId |-> Absent,
     error |-> SubmitErr("", 0, "")]

SubmitSuno ==
    /\ variant = "suno" /\ submission.pc = "idle"
    /\ \E prompt \in Prompts, apiKey \in ApiKeys, instrumental \in BOOLEAN, a \in SunoAnswers :
          submission' = Called(prompt, apiKey, a,
                               SunoGenerateMusic(prompt, apiKey, instrumental, a))
    /\ UNCHANGED <<pollVars, extraction, pair, app, timeline, panel, api>>

SubmitGemini ==
    /\ variant = "gemini" /\ submission.pc = "idle"
    /\ \E prompt \in Prompts, apiKey \in ApiKeys, instrumental \in BOOLEAN, a \in SunoAnswers :
          submission' = Called(prompt, apiKey, a,
                               GeminiGenerateMusic(prompt, apiKey, instrumental, a))
    /\ UNCHANGED <<pollVars, extraction, pair, app, timeline, panel, api>>

SubmitPart000 ==
    /\ variant = "part000" /\ submission.pc = "idle"
    /\ \E prompt \in Prompts, apiKey \in ApiKeys, instrumental \in BOOLEAN,
          title \in Titles, style \in Styles, a \in SunoAnswers :
          submission' = Called(prompt, apiKey, a,
                               Part000GenerateMusic(prompt, apiKey, instrumental,
                                                    title, style, a))
    /\ UNCHANGED <<pollVars, extraction, pair, app, timeline, panel, api>>

SubmitUdio ==
    /\ variant = "udio" /\ submission.pc = "idle"
    /\ \E prompt \in Prompts, apiKey \in ApiKeys, a \in UdioAnswers :
          submission' = Called(prompt, apiKey, a, UdioGenerateTrack(prompt, apiKey, a))
    /\ UNCHANGED <<pollVars, extraction, pair, app, timeline, panel, api>>

SubmitNext == SubmitSuno \/ SubmitGemini \/ SubmitPart000 \/ SubmitUdio

----------------------------------------------------------------------------
(* Track extraction of pollForMusic (geminiService.ts, part_000): where in the
   payload of a status answer the track array is looked for *)

\* A property that may hold an array: absent, an array, or something else
Slot(kind, items) == [kind |-> kind, items |-> items]

Missing == Slot("missing", << >>)

NotArray == Slot("other", << >>)

ArrayOf(items) == Slot("array", items)

\* The value of data.response: undefined, an object { data, clips }, an array,
\* or a string (inner: what the text encodes)
Val(form, inner, data, clips, items) ==
    [form |-> form, inner |-> inner, data |-> data, clips |-> clips, items |-> items]

Undefined == Val("undefined", "", Missing, Missing, << >>)

Obj(data, clips) == Val("object", "", data, clips, << >>)

Arr(items) == Val("array", "", Missing, Missing, items)

\* JSON.stringify(v)
JsonStringify(v) == Val("string", v.form, v.data, v.clips, v.items)

\* A string that is not JSON
Garbage == Val("string", "garbage", Missing, Missing, << >>)

\* JSON.parse(s) of a string that is JSON
JsonParse_Kept(s) == s
JsonParse(s) == Val(s.inner, "", s.data, s.clips, s.items)

\* if (typeof responseObj === 'string') { try { JSON.parse } catch { warn } }
ParseResponse(responseObj) ==
    IF responseObj.form = "string" /\ responseObj.inner # "garbage"
    THEN JsonParse(responseObj)
    ELSE responseObj

\* responseObj?.data, responseObj itself, data.data, responseObj?.clips
Candidates(responseObj, data) ==
    << IF responseObj.form = "object" THEN responseObj.data ELSE Missing,
       IF responseObj.form = "array" THEN ArrayOf(responseObj.items) ELSE Missing,
       data,
       IF responseObj.form = "object" THEN responseObj.clips ELSE Missing >>

RECURSIVE FirstArrayFrom(_, _)
FirstArrayFrom(c, p) ==
    IF p > Len(c) THEN << >>
    ELSE IF c[p].kind = "array" THEN c[p].items
         ELSE FirstArrayFrom(c, p + 1)

\* the if / else if chain over the four locations
FirstArray_Last(c) ==
    IF c[4].kind = "array" THEN c[4].items
    ELSE IF c[3].kind = "array" THEN c[3].items
    ELSE IF c[2].kind = "array" THEN c[2].items
    ELSE IF c[1].kind = "array" THEN c[1].items
    ELSE << >>
FirstArray(c) == FirstArrayFrom(c, 1)

\* data of a status answer: { response, data }
Payload(response, data) == [response |-> response, data |-> data]

NoPayload == Payload(Undefined, Missing)

GeminiLocate(payload) ==
    FirstArray(Candidates(ParseResponse(payload.response), payload.data))

\* Track arrays whose entries may lack an id
RECURSIVE ExtTrackListsOfLen(_)
ExtTrackListsOfLen(n) ==
    IF n = 0 THEN {<< >>}
    ELSE { Append(s, [id |-> d, audio |-> a]) :
             s \in ExtTrackListsOfLen(n - 1), d \in {"", IdAt(n)}, a \in {"", UrlAt(n)} }

ExtTrackLists == UNION { ExtTrackListsOfLen(n) : n \in 0..MaxTracks }

Shapes == {"nested", "array", "flat", "clips",
           "string-nested", "string-array", "string-clips"}

\* The payload that delivers one track array in one shape
Deliver(shape, tr) ==
    CASE shape = "nested" -> Payload(Obj(ArrayOf(tr), Missing), Missing)
      [] shape = "array" -> Payload(Arr(tr), Missing)
      [] shape = "flat" -> Payload(Undefined, ArrayOf(tr))
      [] shape = "clips" -> Payload(Obj(Missing, ArrayOf(tr)), Missing)
      [] shape = "string-nested" ->
            Payload(JsonStringify(Obj(ArrayOf(tr), Missing)), Missing)
      [] shape = "string-array" -> Payload(JsonStringify(Arr(tr)), Missing)
      [] shape = "string-clips" ->
            Payload(JsonStringify(Obj(Missing, ArrayOf(tr))), Missing)

\* What one location may hold when several are filled: its own track, if any
IdOf(loc) ==
    CASE loc = "nested" -> "n1" [] loc = "array" -> "a1"
      [] loc = "flat" -> "f1" [] loc = "clips" -> "c1"

UrlOf(loc) ==
    CASE loc = "nested" -> "un" [] loc = "array" -> "ua"
      [] loc = "flat" -> "uf" [] loc = "clips" -> "uc"

ArraysAt(loc) ==
    {<< >>, <<[id |-> IdOf(loc), audio |-> UrlOf(loc)]>>, <<[id |-> IdOf(loc), audio |-> ""]>>}

SlotsAt(loc) == {Missing, NotArray} \cup {ArrayOf(tr) : tr \in ArraysAt(loc)}

PlainResponses ==
    {Undefined}
    \cup {Obj(d, c) : d \in SlotsAt("nested"), c \in SlotsAt("clips")}
    \cup {Arr(tr) : tr \in ArraysAt("array")}

MixedPayloads ==
    {Payload(r, d) :
        r \in PlainResponses \cup {JsonStringify(v) : v \in PlainResponses} \cup {Garbage},
        d \in SlotsAt("flat")}

ExtractStatuses == {"PENDING", "SUCCESS", "FAILED"}

Extracted(shape, array, payload, located, st, t) ==
    [pc |-> "done", shape |-> shape, array |-> array, payload |-> payload,
     located |-> located, status |-> st, verdict |-> t.verdict, result |-> t.result]

NotExtracted ==
    [pc |-> "idle", shape |-> "", array |-> << >>, payload |-> NoPayload,
     located |-> << >>, status |-> "", verdict |-> "none", result |-> << >>]

\* One iteration of pollForMusic of geminiService.ts on a well-formed answer
GeminiOn(shape, array, payload, st) ==
    LET located == GeminiLocate(payload)
        t == GeminiIteration(i, consecutiveErrors, lastKnown,
                             Resp("ok", st, "", located, "", << >>))
    IN  extraction' = Extracted(shape, array, payload, located, st, t)

ExtractGeminiDelivered ==
    /\ variant = "gemini" /\ extraction.pc = "idle"
    /\ \E shape \in Shapes, tr \in ExtTrackLists, st \in ExtractStatuses :
          GeminiOn(shape, tr, Deliver(shape, tr), st)
    /\ UNCHANGED <<pollVars, submission, pair, app, timeline, panel, api>>

ExtractGeminiMixed ==
    /\ variant = "gemini" /\ extraction.pc = "idle"
    /\ \E payload \in MixedPayloads, st \in ExtractStatuses :
          GeminiOn("mixed", << >>, payload, st)
    /\ UNCHANGED <<pollVars, submission, pair, app, timeline, panel, api>>

\* One iteration of pollForMusic of part_000: taskData.response?.sunoData
ExtractPart000 ==
    /\ variant = "part000" /\ extraction.pc = "idle"
    /\ \E tr \in ExtTrackLists, st \in ExtractStatuses :
          LET t == Part000Iteration(i, consecutiveErrors, lastKnown,
                                    Resp("ok", st, "", tr, "", << >>))
          IN  extraction' = Extracted("sunoData", tr, NoPayload, tr, st, t)
    /\ UNCHANGED <<pollVars, submission, pair, app, timeline, panel, api>>

ExtractNext == ExtractGeminiDelivered \/ ExtractGeminiMixed \/ ExtractPart000

----------------------------------------------------------------------------
(* App.handleAnalyzeScript: the analysis raced against a deadline *)

\* Invocations of handleAnalyzeScript that start an analysis, per behaviour
MaxRuns == 2

\* const TIMEOUT_MS = 120000
TIMEOUT_MS == 120000

\* useState<... | null>(null)
Null == "<null>"

ScriptTexts == {"", "  ", "INT. NIGHT"}

\* scriptText.trim()
Trim(s) == IF s = "  " THEN "" ELSE s

Analyses == {"analysis-1", "analysis-2"}

\* What the analysis promise may reject with: an Error, or another value
Rejections == {"Error: boom", "not an Error"}

NeedInput == "upload a video or fill in the script first"

\* `An error occurred: ${err.message}`, or the text for a value that is no Error
Shown(err) ==
    CASE err = "Error: boom" -> "An error occurred: boom"
      [] err = "Error: Gemini analysis timeout" ->
            "An error occurred: Gemini analysis timeout"
      [] OTHER -> "An unknown error occurred during generation."

\* One invocation past the input check: the request, the timer, and which of
\* the two settled Promise.race
Run_NoTimer(script, video) ==
    [script |-> script, video |-> video, req |-> "pending", timer |-> "none",
     delay |-> TIMEOUT_MS, race |-> "pending"]
Run(script, video) ==
    [script |-> script, video |-> video, req |-> "pending", timer |-> "armed",
     delay |-> TIMEOUT_MS, race |-> "pending"]

Mounted == [isLoading |-> FALSE, error |-> Null, analysis |-> Null, runs |-> << >>]

\* Promise.race settles once: later settlements of its inputs are ignored
RaceOpen_Always(run) == TRUE
RaceOpen(run) == run.race = "pending"

\* The button is disabled while isLoading
HandleAnalyzeScript ==
    /\ ~app.isLoading
    /\ \E scriptText \in ScriptTexts, videoFile \in BOOLEAN, useVideo \in BOOLEAN :
          IF Trim(scriptText) = "" /\ ~videoFile
          THEN app' = [app EXCEPT !.error = NeedInput]
          ELSE /\ Len(app.runs) < MaxRuns
               /\ app' = [isLoading |-> TRUE, error |-> Null, analysis |-> Null,
                          runs |-> Append(app.runs,
                                          Run(scriptText, useVideo /\ videoFile))]
    /\ UNCHANGED <<pollVars, submission, extraction, pair, timeline, panel, api>>

\* analysisPromise fulfils: setAnalysis(result), finally setIsLoading(false)
AnalysisResolves ==
    /\ \E n \in 1..Len(app.runs), found \in Analyses :
          /\ app.runs[n].req = "pending"
          /\ IF RaceOpen(app.runs[n])
             THEN app' = [app EXCEPT !.runs[n].req = "resolved",
                                     !.runs[n].race = "analysis",
                                     !.analysis = found,
                                     !.isLoading = FALSE]
             ELSE app' = [app EXCEPT !.runs[n].req = "resolved"]
    /\ UNCHANGED <<pollVars, submission, extraction, pair, timeline, panel, api>>

\* analysisPromise rejects: setError(msg), finally setIsLoading(false)
AnalysisRejects ==
    /\ \E n \in 1..Len(app.runs), err \in Rejections :
          /\ app.runs[n].req = "pending"
          /\ IF RaceOpen(app.runs[n])
             THEN app' = [app EXCEPT !.runs[n].req = "rejected",
                                     !.runs[n].race = "analysis",
                                     !.error = Shown(err),
                                     !.isLoading = FALSE]
             ELSE app' = [app EXCEPT !.runs[n].req = "rejected"]
    /\ UNCHANGED <<pollVars, submission, extraction, pair, timeline, panel, api>>

\* setTimeout(() => reject(new Error('Gemini analysis timeout')), TIMEOUT_MS);
\* the timer is never cleared
DeadlineFires ==
    /\ \E n \in 1..Len(app.runs) :
          /\ app.runs[n].timer = "armed"
          /\ IF RaceOpen(app.runs[n])
             THEN app' = [app EXCEPT !.runs[n].timer = "fired",
                                     !.runs[n].race = "deadline",
                                     !.error = Shown("Error: Gemini analysis timeout"),
                                     !.isLoading = FALSE]
             ELSE app' = [app EXCEPT !.runs[n].timer = "fired"]
    /\ UNCHANGED <<pollVars, submission, extraction, pair, timeline, panel, api>>

RaceNext == HandleAnalyzeScript \/ AnalysisResolves \/ AnalysisRejects \/ DeadlineFires

----------------------------------------------------------------------------
(* MusicGenerationPanel.handleGenerate: generateTrack, then pollForTrack *)

PanelKeys == {"", "sk-1", "sk-2"}

WorkIds == {"work-1", "work-2"}

TrackUrls == {"https://cdn/a.mp3", "https://cdn/b.mp3"}

\* e.message of what a step rejected with
Thrown == {"Udio API Error", ""}

\* The prompt prop; the panel renders nothing without one
PanelPrompt == "rain on a tin roof"

KeyNeeded == "Please enter a Udio API Key."

\* The useState initial values, without UDIO_API_KEY in the environment.  calls
\* are the service calls of the latest handleGenerate invocation, returned is
\* what its generateTrack resolved with, flow is how far that invocation got.
PanelMounted ==
    [apiKey |-> "", isGenerating |-> FALSE, statusMessage |-> "",
     audioUrl |-> Null, error |-> Null,
     calls |-> << >>, returned |-> Null, flow |-> "none"]

ServiceCall(fn, arg, key) == [fn |-> fn, arg |-> arg, key |-> key]

\* if (!apiKey)
PanelKeyMissing_Never(apiKey) == FALSE
PanelKeyMissing(apiKey) == apiKey = ""

\* catch (e) { setError(e.message || "Failed to generate music") } finally
\* { setIsGenerating(false) }
Caught(p, e, flow) ==
    [p EXCEPT !.error = IF e = "" THEN "Failed to generate music" ELSE e,
              !.isGenerating = FALSE,
              !.flow = flow]

\* onChange={(e) => setApiKey(e.target.value)}
SetApiKey ==
    /\ \E k \in PanelKeys : k # panel.apiKey /\ panel' = [panel EXCEPT !.apiKey = k]
    /\ UNCHANGED <<pollVars, submission, extraction, pair, app, timeline, api>>

\* The generate button is rendered while there is no audioUrl and is disabled
\* while isGenerating.  It is disabled without a key as well; the handler tests
\* the key again, and is taken here with either kind of key.
HandleGenerate ==
    /\ ~panel.isGenerating
    /\ panel.audioUrl = Null
    /\ IF PanelKeyMissing(panel.apiKey)
       THEN panel' = [panel EXCEPT !.error = KeyNeeded,
                                   !.calls = << >>,
                                   !.returned = Null,
                                   !.flow = "no-key"]
       ELSE panel' = [panel EXCEPT
                         !.error = Null,
                         !.isGenerating = TRUE,
                         !.audioUrl = Null,
                         !.statusMessage = "Initializing generation...",
                         !.calls = <<ServiceCall("generateTrack", PanelPrompt,
                                                 panel.apiKey)>>,
                         !.returned = Null,
                         !.flow = "submitting"]
    /\ UNCHANGED <<pollVars, submission, extraction, pair, app, timeline, api>>

\* const workId = await generateTrack(prompt, apiKey); then
\* pollForTrack(workId, apiKey) with the key of the render that was clicked
GenerateTrackResolves ==
    /\ panel.flow = "submitting"
    /\ \E workId \in WorkIds :
          panel' = [panel EXCEPT
                       !.statusMessage = "Creating music (this may take 2-3 minutes)...",
                       !.calls = Append(@, ServiceCall("pollForTrack", workId,
                                                       panel.calls[1].key)),
                       !.returned = workId,
                       !.flow = "polling"]
    /\ UNCHANGED <<pollVars, submission, extraction, pair, app, timeline, api>>

GenerateTrackRejects ==
    /\ panel.flow = "submitting"
    /\ \E e \in Thrown : panel' = Caught(panel, e, "submit-error")
    /\ UNCHANGED <<pollVars, submission, extraction, pair, app, timeline, api>>

\* const url = await pollForTrack(...); setAudioUrl(url); setStatusMessage("")
PollForTrackResolves ==
    /\ panel.flow = "polling"
    /\ \E url \in TrackUrls :
          panel' = [panel EXCEPT !.audioUrl = url,
                                 !.statusMessage = "",
                                 !.isGenerating = FALSE,
                                 !.flow = "success"]
    /\ UNCHANGED <<pollVars, submission, extraction, pair, app, timeline, api>>

PollForTrackRejects ==
    /\ panel.flow = "polling"
    /\ \E e \in Thrown : panel' = Caught(panel, e, "poll-error")
    /\ UNCHANGED <<pollVars, submission, extraction, pair, app, timeline, api>>

\* "Generate New Track": onClick={() => setAudioUrl(null)}
GenerateNewTrack ==
    /\ panel.audioUrl # Null
    /\ panel' = [panel EXCEPT !.audioUrl = Null]
    /\ UNCHANGED <<pollVars, submission, extraction, pair, app, timeline, api>>

PanelNext ==
    \/ SetApiKey
    \/ HandleGenerate
    \/ GenerateTrackResolves
    \/ GenerateTrackRejects
    \/ PollForTrackResolves
    \/ PollForTrackRejects
    \/ GenerateNewTrack

----------------------------------------------------------------------------
(* api/gemini-analyze: the handler *)

\* Longest upstream text, in tokens
MaxText == 3

\* A text is a sequence of tokens: a brace, a member ("k": 1), or a word
Tokens == {"{", "}", "k", "w"}

Texts == UNION {[1..n -> Tokens] : n \in 0..MaxText}

\* The texts JSON.parse accepts
JsonTexts == {<<"{", "}">>, <<"{", "k", "}">>}

ParsesAsJson(text) == text \in JsonTexts

\* text.indexOf(c), text.lastIndexOf(c): from 0, -1 when c does not occur
IndexOf(text, c) ==
    IF \E p \in 1..Len(text) : text[p] = c
    THEN (CHOOSE p \in 1..Len(text) :
             text[p] = c /\ \A q \in 1..(p - 1) : text[q] # c) - 1
    ELSE -1

LastIndexOf(text, c) ==
    IF \E p \in 1..Len(text) : text[p] = c
    THEN (CHOOSE p \in 1..Len(text) :
             text[p] = c /\ \A q \in (p + 1)..Len(text) : text[q] # c) - 1
    ELSE -1

\* firstBrace !== -1 && lastBrace !== -1 && lastBrace > firstBrace
\*     ? text.slice(firstBrace, lastBrace + 1) : text
JsonSlice(text) ==
    LET firstBrace == IndexOf(text, "{")
        lastBrace == LastIndexOf(text, "}")
    IN  IF firstBrace # -1 /\ lastBrace # -1 /\ lastBrace > firstBrace
        THEN SubSeq(text, firstBrace + 1, lastBrace + 1)
        ELSE text

Methods == {"GET", "POST"}

ApiScriptTexts == {Absent, "", "  ", "INT. NIGHT"}

\* req.body: nothing, a string that is not JSON, or an object (as it is, or as
\* a string that parses to it) with its scriptText and whether it has a video
Bodies ==
    {[kind |-> "none", scriptText |-> Absent, video |-> FALSE],
     [kind |-> "garbled", scriptText |-> Absent, video |-> FALSE]}
    \cup [kind : {"object", "string"}, scriptText : ApiScriptTexts, video : BOOLEAN]

\* method, whether GEMINI_API_KEY is in the environment, and the body
ApiRequests == [method : Methods, key : BOOLEAN, body : Bodies]

\* What the upstream fetch brings: a rejection, or a status and a body that is
\* either a Gemini document whose candidates[0].content.parts[0].text is text
\* (envelope), or text itself
NetFail == [kind |-> "netfail", ok |-> FALSE, status |-> 0, envelope |-> FALSE,
            text |-> << >>]

UpstreamAnswers ==
    [kind : {"answer"}, ok : {TRUE}, status : {200}, envelope : BOOLEAN, text : Texts]
    \cup [kind : {"answer"}, ok : {FALSE}, status : {429, 500}, envelope : BOOLEAN,
          text : Texts]

NoUpstream == [kind |-> "none", ok |-> FALSE, status |-> 0, envelope |-> FALSE,
             text |-> << >>]

\* res.status(status).json({error: ...})
Reply(status, error) == [status |-> status, error |-> error]

\* !scriptText?.trim()
ApiBlank_Never(scriptText) == FALSE
ApiBlank(scriptText) == scriptText = Absent \/ Trim(scriptText) = ""

\* The checks before the upstream call, in the order of the code: the response
\* of the first one that fails, or none
Refusal(req) ==
    IF req.method # "POST" THEN <<Reply(405, "Method not allowed")>>
    ELSE IF ~req.key THEN <<Reply(500, "GEMINI_API_KEY is not configured")>>
    ELSE IF req.body.kind = "garbled" THEN <<Reply(400, "Invalid JSON body")>>
    ELSE IF ApiBlank(req.body.scriptText) /\ ~req.body.video
    THEN <<Reply(400, "provide a video or a script")>>
    ELSE << >>

NoText == <<"<null>">>

\* data?.candidates?.[0]?.content?.parts?.[0]?.text ?? null, or the upstream
\* text itself when it is not JSON
ModelText(a) ==
    IF a.envelope THEN a.text
    ELSE IF ParsesAsJson(a.text) THEN NoText
    ELSE a.text

\* The handler from the upstream answer on
Respond(a) ==
    IF a.kind = "netfail" THEN Reply(500, "fetch failed")
    ELSE IF ~a.ok THEN Reply(a.status, "Gemini upstream error")
    ELSE IF ModelText(a) = NoText \/ ModelText(a) = << >>
    THEN Reply(500, "no text in the Gemini result")
    ELSE IF ~ParsesAsJson(JsonSlice(ModelText(a)))
    THEN Reply(500, "the JSON of the Gemini result does not parse")
    ELSE Reply(200, "")

\* No request yet
NoRequest ==
    [stage |-> "idle",
     req |-> [method |-> "GET", key |-> FALSE,
              body |-> [kind |-> "none", scriptText |-> Absent, video |-> FALSE]],
     upstream |-> 0, answer |-> NoUpstream, sent |-> << >>]

\* A request arrives and the handler runs to its first await
ApiReceives ==
    /\ api.stage # "awaiting"
    /\ \E req \in ApiRequests :
          api' = [stage |-> IF Refusal(req) = << >> THEN "awaiting" ELSE "done",
                  req |-> req,
                  upstream |-> IF Refusal(req) = << >> THEN 1 ELSE 0,
                  answer |-> NoUpstream,
                  sent |-> Refusal(req)]
    /\ UNCHANGED <<pollVars, submission, extraction, pair, app, timeline, panel>>

\* await fetch(...) and await upstreamRes.text() deliver
ApiUpstreamAnswers ==
    /\ api.stage = "awaiting"
    /\ \E a \in UpstreamAnswers :
          api' = [api EXCEPT !.stage = "done", !.answer = a,
                             !.sent = Append(@, Respond(a))]
    /\ UNCHANGED <<pollVars, submission, extraction, pair, app, timeline, panel>>

\* await fetch(...) rejects: catch (err) answers 500
ApiUpstreamFails ==
    /\ api.stage = "awaiting"
    /\ api' = [api EXCEPT !.stage = "done", !.answer = NetFail,
                          !.sent = Append(@, Respond(NetFail))]
    /\ UNCHANGED <<pollVars, submission, extraction, pair, app, timeline, panel>>

ApiNext == ApiReceives \/ ApiUpstreamAnswers \/ ApiUpstreamFails

----------------------------------------------------------------------------
(* The poll loops *)

LoopRuns_Inclusive(k, v) == k <= MAX_ATTEMPTS(v)
LoopRuns_Short(k, v) == k < MAX_ATTEMPTS(v) - 1
LoopRuns(k, v) == k < MAX_ATTEMPTS(v)

----------------------------------------------------------------------------
(* Two calls of pollForMusic in progress at once.  Memory is the bindings of
   the module and, for each invocation, the bindings of its activation. *)

Calls == {1, 2}

\* Bound: the two calls are followed side by side until both have read more
\* than MaxTogether answers; each is followed to the end of its budget while
\* the other has read no more than that, or has settled
MaxTogether == 12

Bindings == {"i", "consecutiveErrors", "lastKnown"}

\* Where the declaration of a binding stands.  let consecutiveErrors = 0,
\* let lastKnownData = null / let lastKnownStatus = "Initializing" and
\* for (let i = 0; ...) are statements of the body of pollForMusic; the modules
\* declare no let or var of their own.
ScopeOf_ModuleCounter(name) == IF name = "consecutiveErrors" THEN "module" ELSE "invocation"
ScopeOf(name) == "invocation"

\* The value each declaration gives its binding
Fresh(v) ==
    [i |-> 0, consecutiveErrors |-> 0,
     lastKnown |-> IF v = "gemini" THEN LK("Initializing", "") ELSE NoLK]

\* The bindings the module holds once loaded
Loaded(v) == [name \in {b \in Bindings : ScopeOf(b) = "module"} |-> Fresh(v)[name]]

\* The activation of an invocation that has settled
NoFrame == [i |-> 0, consecutiveErrors |-> 0, lastKnown |-> NoLK]

\* Invocation n reads a binding
Get(mem, n, name) ==
    IF ScopeOf(name) = "module" THEN mem.module[name] ELSE mem.frames[n][name]

\* Invocation n assigns to a binding
Put(mem, n, name, val) ==
    IF ScopeOf(name) = "module"
    THEN [mem EXCEPT !.module[name] = val]
    ELSE [mem EXCEPT !.frames[n][name] = val]

\* The promise of an invocation and where the invocation stands: "polling" in
\* the awaits of the timer, of fetch and of response.json(), between which it
\* assigns nothing; "reading" in the await of response.text() of a non-2xx
\* answer, which follows consecutiveErrors++; "done" once settled
Pending == [pc |-> "polling", outcome |-> Unsettled, result |-> << >>]

\* Invocation n settles: its activation is dropped
Settled(mem, n, o, res) ==
    [mem EXCEPT !.frames[n] = NoFrame,
                !.promises[n] = [pc |-> "done", outcome |-> o, result |-> res]]

\* What an invocation in progress has been answered so far: how many answers
\* it has read to the end, how many non-2xx ones have come since the last
\* well-formed one, the last status reported, the last answer, and whether the
\* body of that answer is still on its way.  Of an invocation that has settled
\* only the answer that settled it is kept.
NothingHeard ==
    [requests |-> 0, failedRun |-> 0, reported |-> NotReported, last |-> NoResponse,
     held |-> FALSE]

Iteration(v, k, ce, lk, r) ==
    CASE v = "suno" -> SunoIteration(k, ce, lk, r)
      [] v = "gemini" -> GeminiIteration(k, ce, lk, r)
      [] v = "part000" -> Part000Iteration(k, ce, lk, r)
      [] v = "udio" -> UdioIteration(k, ce, lk, r)

TimeoutOf(v, lk) ==
    CASE v = "suno" -> SunoTimeout(lk)
      [] v = "gemini" -> GeminiTimeout(lk)
      [] v = "part000" -> Part000Timeout(lk)
      [] v = "udio" -> UdioTimeout(lk)

\* The turn in which the body of answer r arrives: the rest of the pass, then
\* the next turn of the loop, the return or the throw.  The handler counts a
\* non-2xx answer itself, so for one it is handed the counter less the
\* increment already made.
CallStep(v, mem, n, r) ==
    LET k == Get(mem, n, "i")
        ce == Get(mem, n, "consecutiveErrors")
        t == Iteration(v, k, IF r.kind = "http" THEN ce - 1 ELSE ce,
                       Get(mem, n, "lastKnown"), r)
        assigned == Put(Put(mem, n, "consecutiveErrors", t.ce), n, "lastKnown", t.lk)
    IN  CASE t.verdict = "return" -> Settled(assigned, n, Returned, t.result)
          [] t.verdict = "throw" -> Settled(assigned, n, Rejected(t.error), << >>)
          [] t.verdict = "continue" ->
                IF LoopRuns(k + 1, v)
                THEN [Put(assigned, n, "i", k + 1) EXCEPT !.promises[n].pc = "polling"]
                ELSE Settled(assigned, n, Rejected(TimeoutOf(v, t.lk)), << >>)

PairAnswers(v) ==
    IF v = "suno"
    THEN {Bare("http"), Resp("ok", "PENDING", "", << >>, "", << >>),
          Resp("ok", "SUCCESS", "", << >>, "u1", << >>),
          Resp("ok", "CREATE_TASK_FAILED", "boom", << >>, "", << >>)}
    ELSE {Bare("http"), Resp("ok", "PENDING", "", << >>, "", << >>),
          Resp("ok", "SUCCESS", "", <<[id |-> "t1", audio |-> "u1"]>>, "", << >>),
          Resp("ok", "FAILED", "boom", << >>, "", << >>)}

\* The answers heard once invocation n has dealt with answer r
HeardAfter(mem, n, h, r) ==
    IF mem.promises[n].pc = "done"
    THEN [NothingHeard EXCEPT !.last = r]
    ELSE [requests |-> h.requests + 1,
          failedRun |-> IF r.kind = "ok" THEN 0 ELSE h.failedRun,
          reported |-> IF r.kind = "ok" THEN r.status ELSE h.reported,
          last |-> r, held |-> FALSE]

\* if (!response.ok) { consecutiveErrors++; ... await response.text(): a non-2xx
\* answer arrives for invocation n, which counts it and waits for the body; the
\* other invocation is suspended in an await of its own
PairRefused(n) ==
    /\ variant \in {"suno", "gemini"}
    /\ pair.promises[n].pc = "polling"
    /\ \E r \in {a \in PairAnswers(variant) : a.kind = "http"} :
          pair' = [Put(pair, n, "consecutiveErrors", Get(pair, n, "consecutiveErrors") + 1)
                     EXCEPT !.promises[n].pc = "reading",
                            !.heard[n] = [@ EXCEPT !.failedRun = @ + 1, !.last = r,
                                                   !.held = TRUE]]
    /\ UNCHANGED <<pollVars, submission, extraction, app, timeline, panel, api>>

\* The body of an answer arrives for invocation n: of the non-2xx answer it is
\* reading, or of a 2xx answer, whose arrival assigns nothing
PairRead(n) ==
    /\ variant \in {"suno", "gemini"}
    /\ \E r \in PairAnswers(variant) :
          /\ \/ pair.promises[n].pc = "reading" /\ r = pair.heard[n].last
             \/ pair.promises[n].pc = "polling" /\ r.kind = "ok"
          /\ LET mem == CallStep(variant, pair, n, r)
             IN  pair' = [mem EXCEPT !.heard[n] = HeardAfter(mem, n, @, r)]
    /\ UNCHANGED <<pollVars, submission, extraction, app, timeline, panel, api>>

\* One turn of the event loop that runs invocation n
PairStep(n) ==
    /\ \/ Get(pair, n, "i") < MaxTogether
       \/ \A m \in Calls \ {n} : Get(pair, m, "i") <= MaxTogether
    /\ \/ PairRefused(n)
       \/ PairRead(n)

PairFirst == PairStep(1)

PairSecond == PairStep(2)

PairNext == PairFirst \/ PairSecond

----------------------------------------------------------------------------
(* One call of one poll loop *)

\* The loop before its first iteration: nothing slept, nothing sent
LoopTop == [phase |-> "top", inFlight |-> 0, sent |-> 0, sleeps |-> 0, elapsed |-> 0]

Init ==
    /\ variant \in Variants
    /\ pc = "polling"
    /\ i = 0
    /\ consecutiveErrors = 0
    /\ lastKnown = IF variant = "gemini" THEN LK("Initializing", "") ELSE NoLK
    /\ outcome = Unsettled
    /\ result = << >>
    /\ audioUrl = ""
    /\ requests = 0
    /\ progress = << >>
    /\ last = NoResponse
    /\ failedRun = 0
    /\ netRun = 0
    /\ allPending = TRUE
    /\ resetAtBrink = FALSE
    /\ allEmptySuccess = TRUE
    /\ lastReported = NotReported
    /\ fractions = NoFractions
    /\ submission = NotCalled
    /\ extraction = NotExtracted
    /\ pair = [module |-> Loaded(variant),
               frames |-> [n \in Calls |-> Fresh(variant)],
               promises |-> [n \in Calls |-> Pending],
               heard |-> [n \in Calls |-> NothingHeard]]
    /\ app = Mounted
    /\ timeline = LoopTop
    /\ panel = PanelMounted
    /\ api = NoRequest

\* The effect of one iteration t on answer r; timeoutErr is thrown after the loop
Settle(r, t, timeoutErr) ==
    /\ requests' = requests + 1
    /\ last' = r
    /\ consecutiveErrors' = t.ce
    /\ lastKnown' = t.lk
    /\ progress' = t.progress
    /\ failedRun' = IF FailedAnswer(r) THEN Min(failedRun + 1, ErrorBudget + MaxOverrun + 1)
                    ELSE IF WellFormed(r) THEN 0 ELSE failedRun
    /\ netRun' = IF r.kind = "netfail" THEN Min(netRun + 1, ErrorBudget) ELSE 0
    /\ allPending' = (allPending /\ PlainPending(variant, r))
    /\ resetAtBrink' = (/\ WellFormed(r)
                        /\ variant \in {"suno", "gemini"}
                        /\ failedRun = ErrorBudget - 1)
    /\ allEmptySuccess' = (allEmptySuccess /\ EmptySuccess(variant, r))
    /\ lastReported' = IF r.kind = "ok" /\ variant \in {"suno", "gemini"}
                       THEN r.status ELSE lastReported
    /\ fractions' = IF variant = "part000" THEN Observe(fractions, t.progress)
                     ELSE fractions
    /\ submission' = submission
    /\ extraction' = extraction
    /\ pair' = pair
    /\ app' = app
    /\ panel' = panel
    /\ api' = api
    /\ variant' = variant
    /\ CASE t.verdict = "return" ->
                /\ pc' = "done"
                /\ outcome' = Returned
                /\ result' = t.result
                /\ audioUrl' = t.url
                /\ i' = i
         [] t.verdict = "throw" ->
                /\ pc' = "done"
                /\ outcome' = Rejected(t.error)
                /\ i' = i
                /\ UNCHANGED <<result, audioUrl>>
         [] t.verdict = "continue" ->
                /\ i' = i + 1
                /\ IF LoopRuns(i + 1, variant)
                   THEN pc' = "polling" /\ outcome' = outcome
                   ELSE pc' = "done" /\ outcome' = Rejected(timeoutErr)
                /\ UNCHANGED <<result, audioUrl>>

\* One iteration of each loop, its answer drawn from R
SunoAttempt(R) ==
    /\ variant = "suno" /\ pc = "polling" /\ LoopRuns(i, "suno")
    /\ \E r \in R :
          /\ r = Unread => consecutiveErrors + 1 < ErrorBudget + MaxOverrun
          /\ LET t == SunoIteration(i, consecutiveErrors, lastKnown, r)
             IN  Settle(r, t, SunoTimeout(t.lk))

GeminiAttempt(R) ==
    /\ variant = "gemini" /\ pc = "polling" /\ LoopRuns(i, "gemini")
    /\ \E r \in R :
          /\ r = Unread => consecutiveErrors + 1 < ErrorBudget + MaxOverrun
          /\ LET t == GeminiIteration(i, consecutiveErrors, lastKnown, r)
             IN  Settle(r, t, GeminiTimeout(t.lk))

Part000Attempt(R) ==
    /\ variant = "part000" /\ pc = "polling" /\ LoopRuns(i, "part000")
    /\ \E r \in R :
          LET t == Part000Iteration(i, consecutiveErrors, lastKnown, r)
          IN  Settle(r, t, Part000Timeout(t.lk))

UdioAttempt(R) ==
    /\ variant = "udio" /\ pc = "polling" /\ LoopRuns(i, "udio")
    /\ \E r \in R :
          LET t == UdioIteration(i, consecutiveErrors, lastKnown, r)
          IN  Settle(r, t, UdioTimeout(t.lk))

SunoPollForMusic == SunoAttempt(SunoResponses) /\ UNCHANGED timeline
GeminiPollForMusic == GeminiAttempt(GeminiResponses) /\ UNCHANGED timeline
Part000PollForMusic == Part000Attempt(Part000Responses) /\ UNCHANGED timeline
UdioPollForTrack == UdioAttempt(UdioResponses) /\ UNCHANGED timeline

Next ==
    \/ SunoPollForMusic
    \/ GeminiPollForMusic
    \/ Part000PollForMusic
    \/ UdioPollForTrack

Spec == Init /\ [][Next]_vars

\* One submission call per behaviour
SubmitSpec == Init /\ [][SubmitNext]_vars

\* One status payload per behaviour
ExtractSpec == Init /\ [][ExtractNext]_vars

\* Two interleaved calls per behaviour
PairSpec == Init /\ [][PairNext]_vars

\* The analysis button of App
RaceSpec == Init /\ [][RaceNext]_vars

\* The same, with the timers of setTimeout firing once they are armed; nothing
\* makes the analysis request settle
RaceLiveSpec == Init /\ [][RaceNext]_vars /\ WF_vars(DeadlineFires)

\* The generate button of MusicGenerationPanel
PanelSpec == Init /\ [][PanelNext]_vars

\* Requests to api/gemini-analyze, one at a time
ApiSpec == Init /\ [][ApiNext]_vars

(* The same loops on one answer of each class the handlers tell apart, for the *)
(* properties of whole behaviours.  Every status request completes, so an      *)
(* iteration that can run does run.                                            *)
CoreAnswer(r) ==
    \/ r.kind \notin {"ok", "code"} /\ r.body = ""
    \/ /\ r.kind = "code"
       /\ r.feed = << >>
    \/ /\ r.kind = "ok"
       /\ r.status \in {"", "PENDING", "SUCCESS", "CREATE_TASK_FAILED", "FAILED"}
       /\ r.errorMessage = ""
       /\ Len(r.tracks) <= 1
       /\ Len(r.feed) <= 1

SunoPollForMusicCore == SunoAttempt({r \in SunoResponses : CoreAnswer(r)}) /\ UNCHANGED timeline
GeminiPollForMusicCore == GeminiAttempt({r \in GeminiResponses : CoreAnswer(r)}) /\ UNCHANGED timeline
Part000PollForMusicCore == Part000Attempt({r \in Part000Responses : CoreAnswer(r)}) /\ UNCHANGED timeline
UdioPollForTrackCore == UdioAttempt({r \in UdioResponses : CoreAnswer(r)}) /\ UNCHANGED timeline

NextCore ==
    \/ SunoPollForMusicCore
    \/ GeminiPollForMusicCore
    \/ Part000PollForMusicCore
    \/ UdioPollForTrackCore

LiveSpec == Init /\ [][NextCore]_vars /\ WF_vars(NextCore)

----------------------------------------------------------------------------
(* The same loops, an iteration in its three steps: the sleep, the request *)
(* being sent, and its answer being handled.                               *)

\* await new Promise(resolve => setTimeout(resolve, INTERVAL))
SleepFor_BackOff(v, ce) == INTERVAL(v) * (ce + 1)
SleepFor(v, ce) == INTERVAL(v)

Sleep ==
    /\ pc = "polling" /\ LoopRuns(i, variant)
    /\ timeline.phase = "top"
    /\ timeline' = [timeline EXCEPT !.phase = "slept",
                                    !.sleeps = @ + 1,
                                    !.elapsed = @ + SleepFor(variant, consecutiveErrors)]
    /\ UNCHANGED <<pollVars, submission, extraction, pair, app, panel, api>>

\* await fetch(...): the request leaves
Fetch ==
    /\ pc = "polling"
    /\ timeline.phase = "slept"
    /\ timeline' = [timeline EXCEPT !.phase = "inflight",
                                    !.sent = @ + 1,
                                    !.inFlight = @ + 1]
    /\ UNCHANGED <<pollVars, submission, extraction, pair, app, panel, api>>

\* the answer arrives and the rest of the iteration runs
Answered == [timeline EXCEPT !.phase = "top", !.inFlight = @ - 1]

ReceiveSuno ==
    /\ timeline.phase = "inflight"
    /\ SunoAttempt({r \in SunoResponses : CoreAnswer(r)})
    /\ timeline' = Answered

ReceiveGemini ==
    /\ timeline.phase = "inflight"
    /\ GeminiAttempt({r \in GeminiResponses : CoreAnswer(r)})
    /\ timeline' = Answered

ReceivePart000 ==
    /\ timeline.phase = "inflight"
    /\ Part000Attempt({r \in Part000Responses : CoreAnswer(r)})
    /\ timeline' = Answered

ReceiveUdio ==
    /\ timeline.phase = "inflight"
    /\ UdioAttempt({r \in UdioResponses : CoreAnswer(r)})
    /\ timeline' = Answered

StepNext ==
    \/ Sleep
    \/ Fetch
    \/ ReceiveSuno
    \/ ReceiveGemini
    \/ ReceivePart000
    \/ ReceiveUdio

StepSpec == Init /\ [][StepNext]_vars

TypeOK ==
    /\ variant \in Variants
    /\ pc \in {"polling", "done"}
    /\ i \in 0..MAX_ATTEMPTS(variant)
    /\ consecutiveErrors \in 0..(ErrorBudget + MaxOverrun)
    /\ outcome.kind \in {"none", "returned", "rejected"}
    /\ (pc = "done") = (outcome.kind # "none")

----------------------------------------------------------------------------
(* Vocabulary of the properties, stated on the answers and the outcome only *)

\* The attempt budget of each variant
Budget(v) ==
    CASE v = "suno" -> 120
      [] v = "gemini" -> 60
      [] v = "part000" -> 60
      [] v = "udio" -> 30

\* The statuses each record-info endpoint documents as terminal failures
TerminalFailure(v) ==
    CASE v = "suno" -> {"CREATE_TASK_FAILED", "GENERATE_WAV_FAILED", "CALLBACK_EXCEPTION"}
      [] v = "part000" -> {"CREATE_TASK_FAILED", "GENERATE_AUDIO_FAILED", "CALLBACK_EXCEPTION",
                           "SENSITIVE_WORD_ERROR"}
      [] OTHER -> {}

\* The status of an answer, case folded
Normalized(st) ==
    CASE st \in {"SUCCESS", "success"} -> "SUCCESS"
      [] st \in {"FAILED", "failed"} -> "FAILED"
      [] st = "PENDING" -> "PENDING"
      [] OTHER -> "OTHER"

\* The upstream tracks that have an audio URL, in upstream order
WithAudio(tracks) == SelectSeq(tracks, LAMBDA t : t.audio # "")

\* The feed entry of the polled job in the last answer (the first with its id)
HasEntry == \E p \in 1..Len(last.feed) : last.feed[p].id = TaskId
Entry ==
    last.feed[CHOOSE p \in 1..Len(last.feed) :
                /\ last.feed[p].id = TaskId
                /\ \A q \in 1..(p - 1) : last.feed[q].id # TaskId]

IsRejected == pc = "done" /\ outcome.kind = "rejected"
IsReturned == pc = "done" /\ outcome.kind = "returned"

GenerationFailed ==
    /\ IsRejected
    /\ outcome.error.text \in {"Suno API task failed: ", "Generation failed: ",
                                "Udio generation failed."}

IncompleteSuccess ==
    /\ IsRejected
    /\ outcome.error.text \in
          {"Generation marked as complete but audio URL was never provided",
           "Generation marked as complete, but audio URLs were missing from the response.",
           "Generation marked as complete, but no track data was returned.",
           "Generation completed but no audio data returned"}

RepeatedFailure ==
    /\ IsRejected
    /\ outcome.error.text \in {"Repeated API errors", "Repeated API error code"}

TimedOut ==
    /\ IsRejected
    /\ outcome.error.text \in
          {"Timeout waiting for music generation after ",
           "Timeout waiting for music generation. Last known status: ",
           "Generation timeout, please try again later",
           "Timeout waiting for audio generation."}

\* The last answer settled the call: it was the answer of the attempt the call ended on
SettledOnLast == pc = "done" /\ requests = i + 1 /\ ~TimedOut

----------------------------------------------------------------------------
(* C1 *)

\* C1: in pollForMusic of sunoService.ts and of part_000, a well-formed answer
\* whose status is a terminal failure status of that endpoint rejects the call on
\* that attempt with the generation-failed error, which carries the upstream
\* errorMessage when there is one, whatever the number of attempts left.
C1_TerminalFailureRejects ==
    (/\ variant \in {"suno", "part000"}
     /\ last.kind = "ok"
     /\ last.status \in TerminalFailure(variant))
    => /\ GenerationFailed
       /\ SettledOnLast
       /\ last.errorMessage # "" => outcome.error.detail = last.errorMessage

C1_Witness ==
    /\ variant = "suno"
    /\ last.kind = "ok" /\ last.status = "CALLBACK_EXCEPTION" /\ last.errorMessage = "boom"
    /\ i = 2 /\ requests = 3
    /\ GenerationFailed /\ outcome.error.detail = "boom"

----------------------------------------------------------------------------
(* C2 *)

\* C2: in pollForTrack, an answer whose entry for workId has status FAILED rejects
\* the call on that attempt with 'Udio generation failed.'.
C2_UdioFailedRejects ==
    (/\ variant = "udio"
     /\ last.kind = "ok"
     /\ HasEntry
     /\ Entry.status = "FAILED")
    => /\ GenerationFailed
       /\ outcome.error.text = "Udio generation failed."
       /\ SettledOnLast

----------------------------------------------------------------------------
(* C3 *)

\* C3: a poll call that returns, returns something usable: a non-empty list whose
\* tracks all have a non-empty audio_url (pollForMusic), a non-empty URL
\* (pollForTrack).
C3_NoUnusableSuccess ==
    IsReturned =>
        IF variant = "udio"
        THEN audioUrl # ""
        ELSE /\ Len(result) > 0
             /\ \A p \in 1..Len(result) : result[p].audio_url # ""

----------------------------------------------------------------------------
(* C4 *)

\* The last answer is well-formed, says SUCCESS and has no usable audio URL
SuccessWithoutAudio ==
    /\ last.kind = "ok"
    /\ CASE variant = "udio" ->
                HasEntry /\ Entry.status = "SUCCESS" /\ Entry.audio_url = ""
         [] variant = "suno" ->
                last.status = "SUCCESS" /\ last.audioWavUrl = ""
         [] OTHER ->
                Normalized(last.status) = "SUCCESS" /\ WithAudio(last.tracks) = << >>

\* C4: in the variants without a grace window (part_000, geminiService.ts,
\* udioService.ts) a well-formed SUCCESS answer without a usable audio URL rejects
\* the call on that attempt with the complete-but-no-audio error, which is not the
\* timeout error.
C4_SuccessWithoutAudioRejects ==
    (variant \in {"part000", "gemini", "udio"} /\ SuccessWithoutAudio)
    => IncompleteSuccess /\ SettledOnLast /\ ~TimedOut

----------------------------------------------------------------------------
(* C5 *)

\* C5: a SUCCESS answer with at least one track that has an audio URL makes
\* pollForMusic return on that attempt, and the returned tracks are the upstream
\* tracks that have an audio URL, in upstream order.
C5_SuccessReturnsValidTracksInOrder ==
    (/\ variant \in {"gemini", "part000"}
     /\ last.kind = "ok"
     /\ Normalized(last.status) = "SUCCESS"
     /\ (variant = "part000" => last.status = "SUCCESS")
     /\ WithAudio(last.tracks) # << >>)
    => /\ IsReturned
       /\ requests = i + 1
       /\ Len(result) = Len(WithAudio(last.tracks))
       /\ \A p \in 1..Len(result) :
             /\ result[p].id = WithAudio(last.tracks)[p].id
             /\ result[p].audio_url = WithAudio(last.tracks)[p].audio

----------------------------------------------------------------------------
(* C6 *)

\* C6: pollForMusic of geminiService.ts returns tracks only on an answer whose
\* normalized status is SUCCESS; PENDING, partial and unknown statuses make the loop
\* go on, and FAILED always rejects.
C6_GeminiReturnsOnlyOnSuccess ==
    (variant = "gemini" /\ last.kind = "ok")
    => /\ IsReturned => Normalized(last.status) = "SUCCESS"
       /\ Normalized(last.status) = "FAILED" => GenerationFailed
       /\ Normalized(last.status) \notin {"SUCCESS", "FAILED"} => (pc = "polling" \/ TimedOut)

----------------------------------------------------------------------------
(* C7 *)

\* C7: a call issues at most MAX_ATTEMPTS status requests (120, 60, 60, 30), and
\* when every request completes the call ends: it returns or rejects, and it
\* rejects with the timeout error exactly when the budget is used up without
\* another outcome.
C7_BoundedAndEnds ==
    /\ [](requests <= Budget(variant))
    /\ [](TimedOut => requests = Budget(variant))
    /\ []((requests = Budget(variant)) => (IsReturned \/ IsRejected))
    /\ <>[](IsReturned \/ IsRejected)

C7_Witness ==
    /\ variant = "udio"
    /\ TimedOut
    /\ requests = 30
    /\ last.kind = "http"

----------------------------------------------------------------------------
(* C8 *)

\* C8: while every answer is a well-formed PENDING answer the call stays
\* unsettled through the first MAX_ATTEMPTS - 1 requests and rejects with the
\* timeout error at request MAX_ATTEMPTS, in every variant.
C8_AlwaysPendingTimesOutExactly ==
    (allPending /\ requests > 0)
    => IF requests < Budget(variant)
       THEN pc = "polling" /\ outcome.kind = "none"
       ELSE TimedOut /\ requests = Budget(variant)

C8_Witness ==
    /\ variant = "suno"
    /\ allPending
    /\ requests = 120
    /\ TimedOut

----------------------------------------------------------------------------
(* C9 *)

\* C9: in pollForMusic of sunoService.ts and geminiService.ts the fifth failed
\* answer in a row (non-2xx or code other than 200, in any mix, with no
\* well-formed answer in between) rejects the call with the repeated-failure
\* error, and the call never rejects with that error on fewer than five.
C9_FiveFailuresReject ==
    variant \in {"suno", "gemini"}
    => /\ failedRun >= 5 => (RepeatedFailure /\ SettledOnLast)
       /\ RepeatedFailure => (failedRun = 5 /\ last.kind \in {"http", "code"})
       /\ (failedRun < 5 /\ last.kind \in {"http", "code"}) => pc = "polling" \/ TimedOut

----------------------------------------------------------------------------
(* C10 *)

\* C10: in pollForMusic of sunoService.ts and geminiService.ts a rejected fetch
\* increments the consecutive-error counter like a non-2xx answer, so five
\* rejected fetches in a row reject the call with the repeated-failure error.
C10_FetchRejectionCounts ==
    variant \in {"suno", "gemini"}
    => /\ consecutiveErrors >= netRun
       /\ netRun >= 5 => RepeatedFailure

----------------------------------------------------------------------------
(* C11 *)

\* C11: in pollForMusic of sunoService.ts and geminiService.ts every well-formed
\* answer (2xx, code 200), whatever status it reports, resets the consecutive-error
\* counter to 0, so the counter is the number of failed answers since the last
\* well-formed one: after four failures and a well-formed PENDING the loop goes on.
C11_WellFormedResets ==
    variant \in {"suno", "gemini"}
    => /\ WellFormed(last) => consecutiveErrors = 0
       /\ consecutiveErrors = failedRun
       /\ (resetAtBrink /\ PlainPending(variant, last)) => (pc = "polling" \/ TimedOut)

C11_Witness ==
    /\ variant = "suno"
    /\ resetAtBrink
    /\ last.kind = "ok" /\ last.status = "PENDING"
    /\ consecutiveErrors = 0
    /\ pc = "polling"
    /\ requests = 5

----------------------------------------------------------------------------
(* C12 *)

\* C12: in pollForMusic of part_000 and pollForTrack of udioService.ts the fifth
\* failed answer in a row (non-2xx or code other than 200) aborts the call with a
\* fatal error, so no sixth request follows five failed ones.
C12_FiveFailuresAbort ==
    variant \in {"part000", "udio"}
    => /\ failedRun >= 5 => (IsRejected /\ SettledOnLast)
       /\ failedRun <= 5

----------------------------------------------------------------------------
(* C13 *)

\* C13: in pollForMusic of sunoService.ts a SUCCESS answer without an audio URL
\* keeps the loop polling at attempt index below 115 and rejects with the
\* complete-but-no-audio error from index 115 on; with such answers only, the call
\* rejects with that error at request 116, never times out and never returns.
C13_SunoGraceWindow ==
    variant = "suno"
    => /\ (last.kind = "ok" /\ last.status = "SUCCESS" /\ last.audioWavUrl = "")
          => IF requests - 1 < 115
             THEN pc = "polling" /\ outcome.kind = "none"
             ELSE IncompleteSuccess /\ SettledOnLast
       /\ (allEmptySuccess /\ requests > 0)
          => /\ requests <= 116
             /\ ~TimedOut /\ ~IsReturned
             /\ (pc = "done") = (requests = 116)
             /\ requests = 116 => IncompleteSuccess

C13_Witness ==
    /\ variant = "suno"
    /\ allEmptySuccess
    /\ requests = 116
    /\ i = 115
    /\ IncompleteSuccess

----------------------------------------------------------------------------
(* C14 *)

\* C14: in every variant a poll call rejects only with a fatal outcome (repeated
\* failure, generation failed, complete-but-no-audio, timeout); a transient
\* failure (non-2xx, code other than 200, fetch rejected, unparsable body) rejects
\* the call only as the fifth failed answer in a row, and otherwise the loop goes
\* on to the next attempt.
C14_TransientFailuresSwallowed ==
    /\ IsRejected => (RepeatedFailure \/ GenerationFailed \/ IncompleteSuccess \/ TimedOut)
    /\ (last.kind \in {"netfail", "http", "badjson", "code"} /\ IsRejected /\ ~TimedOut)
       => (RepeatedFailure /\ failedRun = 5)
    /\ (last.kind \in {"netfail", "http", "badjson", "code"} /\ failedRun < 5)
       => (pc = "polling" /\ i = requests) \/ TimedOut \/ (variant = "udio" /\ IsReturned)

----------------------------------------------------------------------------
(* C15 *)

\* The status strings the handler of each pollForMusic variant has no case for
Unrecognised(v, st) ==
    CASE v = "suno" -> st \in {"", "WEIRD", "SENSITIVE_WORD_ERROR"}
      [] v = "gemini" -> st \in {"", "WEIRD"}
      [] v = "part000" -> st \in {"", "WEIRD", "GENERATE_WAV_FAILED"}
      [] OTHER -> FALSE

\* C15: in every pollForMusic variant a well-formed answer with an
\* unrecognised status never makes the call reject or return; the loop goes on.
C15_UnknownStatusNonTerminal ==
    (/\ variant \in {"suno", "gemini", "part000"}
     /\ last.kind = "ok"
     /\ Unrecognised(variant, last.status))
    => (pc = "polling" \/ TimedOut)

----------------------------------------------------------------------------
(* C16 *)

\* The status as the timeout message shows it
Displayed(v, st) ==
    CASE st = "" -> "UNKNOWN"
      [] v = "gemini" /\ st = "success" -> "SUCCESS"
      [] v = "gemini" /\ st = "failed" -> "FAILED"
      [] OTHER -> st

\* C16: when pollForMusic of sunoService.ts or geminiService.ts rejects with the
\* timeout error after some answer reported a job status, the error reports the
\* status of the most recent answer that reported one.
C16_TimeoutReportsLastStatus ==
    (/\ variant \in {"suno", "gemini"}
     /\ TimedOut
     /\ lastReported # NotReported)
    => outcome.error.detail = Displayed(variant, lastReported)

----------------------------------------------------------------------------
(* C18 *)

\* C18: in every pollForMusic variant an attempt that fails transiently without
\* exhausting the error budget (non-2xx, code other than 200, rejected request)
\* emits exactly one onProgress notification.
C18_TransientFailureNotifiesOnce ==
    (/\ variant \in {"suno", "gemini", "part000"}
     /\ last.kind \in {"http", "code", "netfail"}
     /\ (pc = "polling" \/ TimedOut))
    => Len(progress) = 1

----------------------------------------------------------------------------
(* C17 *)

\* C17: in pollForMusic of part_000 the completion fractions given to onProgress
\* never go down over the whole call, whatever the answers, and no notification
\* follows one that reported 100.
C17_FractionsNeverGoBack ==
    variant = "part000" => fractions.orderly

----------------------------------------------------------------------------
(* C19 *)

\* C19: generateMusic (sunoService.ts, geminiService.ts, part_000) and
\* generateTrack (udioService.ts) called with an empty credential reject with
\* the key-is-required error and send no outbound request.
C19_EmptyCredentialSendsNothing ==
    (submission.pc = "done" /\ submission.apiKey = "")
    => /\ submission.requests = << >>
       /\ submission.verdict = "throw"
       /\ submission.error.text = (IF variant = "udio" THEN "Udio API Key is required."
                                   ELSE "Suno API Key is required.")

C19_Witness ==
    /\ variant = "udio"
    /\ submission.pc = "done"
    /\ submission.apiKey = ""
    /\ submission.verdict = "throw"
    /\ submission.requests = << >>

----------------------------------------------------------------------------
(* C20 *)

\* C20: a submission call with a credential sends exactly one outbound request
\* and never a second one; when the request is answered with a non-2xx status the
\* call rejects with an error carrying the status code and the body text, and
\* when the request itself fails the call rejects as well.
C20_OneRequestNoRetry ==
    submission.pc = "done"
    => /\ Len(submission.requests) <= 1
       /\ submission.apiKey # "" =>
             /\ Len(submission.requests) = 1
             /\ submission.requests[1].authorization = submission.apiKey
       /\ submission.answer.kind = "http" =>
             /\ submission.verdict = "throw"
             /\ submission.error.code = submission.answer.status
             /\ submission.error.detail = submission.answer.text
       /\ submission.answer.kind = "netfail" => submission.verdict = "throw"

----------------------------------------------------------------------------
(* C21 *)

\* C21: in every submission variant a 2xx answer whose payload code is not 200
\* makes the call reject with an error carrying the code and the message, and no
\* job identifier is returned.
C21_BusinessErrorRejects ==
    (/\ submission.pc = "done"
     /\ submission.answer.kind = "json"
     /\ submission.answer.code # 200)
    => /\ submission.verdict = "throw"
       /\ submission.error.code = submission.answer.code
       /\ submission.error.detail = submission.answer.msg
       /\ submission.jobId = Absent

----------------------------------------------------------------------------
(* C22 *)

\* The answer carries a job identifier under a field name the variant accepts
CarriesJobId(v, a) ==
    IF v = "udio"
    THEN ~Falsy(a.workId) \/ (a.data /\ ~Falsy(a.task_id))
    ELSE a.data /\ ~Falsy(a.taskId)

\* C22: in every submission variant a 2xx answer with code 200 that carries no
\* job identifier makes the call reject with a malformed-response error, and
\* a call never resolves with an empty or undefined job identifier.
C22_MissingJobIdRejects ==
    submission.pc = "done"
    => /\ (/\ submission.answer.kind = "json"
           /\ submission.answer.code = 200
           /\ ~CarriesJobId(variant, submission.answer))
          => submission.verdict = "throw"
       /\ submission.verdict = "return" => ~Falsy(submission.jobId)

----------------------------------------------------------------------------
(* C23 *)

\* C23: in pollForMusic of geminiService.ts a track array yields the same
\* extracted tracks in every supported shape (data.response.data, data.response
\* as the array, data.data, data.response.clips, or data.response as the JSON
\* text of one of these): the array itself is located, and the call returns
\* exactly its tracks that have an audio URL, in order, or does not return.
C23_ShapeIndependent ==
    (/\ variant = "gemini"
     /\ extraction.pc = "done"
     /\ extraction.shape \in Shapes)
    => LET wanted == WithAudio(extraction.array)
       IN  /\ extraction.located = extraction.array
           /\ IF wanted = << >>
              THEN extraction.verdict # "return"
              ELSE /\ extraction.verdict = "return"
                   /\ Len(extraction.result) = Len(wanted)
                   /\ \A p \in 1..Len(wanted) :
                         /\ extraction.result[p].audio_url = wanted[p].audio
                         /\ wanted[p].id # "" => extraction.result[p].id = wanted[p].id

C23_Witness ==
    /\ variant = "gemini"
    /\ extraction.pc = "done"
    /\ extraction.shape = "string-clips"
    /\ Len(extraction.array) = 2
    /\ extraction.verdict = "return"
    /\ Len(extraction.result) = 2

----------------------------------------------------------------------------
(* C24 *)

Priority == <<"nested", "array", "flat", "clips">>

\* What a payload holds at a location, data.response decoded when it is JSON text
At(payload, loc) ==
    LET r == IF payload.response.form = "string" /\ payload.response.inner # "garbage"
             THEN [payload.response EXCEPT !.form = payload.response.inner, !.inner = ""]
             ELSE payload.response
    IN  CASE loc = "nested" -> IF r.form = "object" THEN r.data ELSE Missing
          [] loc = "array" -> IF r.form = "array" THEN ArrayOf(r.items) ELSE Missing
          [] loc = "flat" -> payload.data
          [] loc = "clips" -> IF r.form = "object" THEN r.clips ELSE Missing

\* C24: in pollForMusic of geminiService.ts, with several track locations filled
\* in one answer, the track list is that of the first location holding an array
\* in the order data.response.data, data.response, data.data, data.response.clips,
\* and every returned track comes from that location.
C24_OneLocationByPriority ==
    (/\ variant = "gemini"
     /\ extraction.pc = "done"
     /\ extraction.shape = "mixed")
    => \A j \in 1..4 :
          (/\ At(extraction.payload, Priority[j]).kind = "array"
           /\ \A m \in 1..(j - 1) : At(extraction.payload, Priority[m]).kind # "array")
          => /\ extraction.located = At(extraction.payload, Priority[j]).items
             /\ \A p \in 1..Len(extraction.result) :
                   extraction.result[p].id = IdOf(Priority[j])

C24_Witness ==
    /\ variant = "gemini"
    /\ extraction.pc = "done"
    /\ extraction.shape = "mixed"
    /\ At(extraction.payload, "nested") = ArrayOf(<<[id |-> "n1", audio |-> ""]>>)
    /\ At(extraction.payload, "flat") = ArrayOf(<<[id |-> "f1", audio |-> "uf"]>>)
    /\ At(extraction.payload, "clips") = ArrayOf(<<[id |-> "c1", audio |-> "uc"]>>)
    /\ extraction.status = "PENDING"
    /\ extraction.verdict = "continue"

----------------------------------------------------------------------------
(* C25 *)

\* C25: every track returned by pollForMusic of geminiService.ts and part_000 has
\* a non-empty id, the upstream id when there is one and a synthesized one
\* otherwise, and no two returned tracks share a synthesized id.
C25_ReturnedTracksHaveIds ==
    (/\ variant \in {"gemini", "part000"}
     /\ extraction.pc = "done"
     /\ extraction.verdict = "return")
    => LET src == IF variant = "gemini" THEN WithAudio(extraction.located)
                  ELSE extraction.located
           out == extraction.result
       IN  /\ Len(out) = Len(src)
           /\ \A p \in 1..Len(out) :
                 /\ out[p].id # ""
                 /\ src[p].id # "" => out[p].id = src[p].id
           /\ \A p, q \in 1..Len(out) :
                 (p # q /\ src[p].id = "" /\ src[q].id = "") => out[p].id # out[q].id

----------------------------------------------------------------------------
(* C26 *)

\* The locals of invocation n as it reads them
Locals(mem, n) == [name \in Bindings |-> Get(mem, n, name)]

\* The locals a call has after the answers it was given, had it run alone: one
\* turn of the loop per answer read to the end, the non-2xx answers since the
\* last well-formed one, the last status reported
LocalsAlone(v, h) ==
    [i |-> h.requests,
     consecutiveErrors |-> h.failedRun,
     lastKnown |-> IF h.reported # NotReported THEN LK(h.reported, "")
                   ELSE IF v = "gemini" THEN LK("Initializing", "") ELSE NoLK]

\* How a call that was answered h ends, had it run alone, once the body of
\* answer r has come
EndsAlone(v, h, r) ==
    CASE r.kind = "ok" /\ r.status = "SUCCESS" -> "returned"
      [] r.kind = "ok" /\ r.status \in {"CREATE_TASK_FAILED", "FAILED"} -> "failed"
      [] r.kind = "http" /\ h.failedRun = 5 -> "repeated"
      [] h.requests + 1 = (IF v = "suno" THEN 120 ELSE 60) -> "timeout"
      [] OTHER -> "running"

\* The promise p is settled the way e says
EndedAs(p, e) ==
    CASE e = "returned" ->
            /\ p.outcome = Returned
            /\ Len(p.result) = 1 /\ p.result[1].audio_url = "u1"
      [] e = "failed" ->
            /\ p.outcome.kind = "rejected"
            /\ p.outcome.error.text = "Suno API task failed: "
            /\ p.outcome.error.detail = "boom"
      [] e = "repeated" ->
            /\ p.outcome.kind = "rejected"
            /\ p.outcome.error.text = "Repeated API errors"
      [] e = "timeout" ->
            /\ p.outcome.kind = "rejected"
            /\ p.outcome.error.text \in
                  {"Timeout waiting for music generation after ",
                   "Timeout waiting for music generation. Last known status: "}

\* A call in progress is where its own answers alone put it
OwnAnswersOnly ==
    \A n \in Calls :
       pair.promises[n].pc # "done"
       => /\ pair.promises[n].pc = (IF pair.heard[n].held THEN "reading" ELSE "polling")
          /\ pair.promises[n].outcome = Unsettled
          /\ Locals(pair, n) = LocalsAlone(variant, pair.heard[n])

\* A step in which the body of an answer comes to call n ends the call when,
\* and the way, its own answers alone say
EndsOnOwnAnswers ==
    \A n \in Calls :
       (pair'.heard[n] # pair.heard[n] /\ ~pair'.heard[n].held)
       => LET e == EndsAlone(variant, pair.heard[n], pair'.heard[n].last)
          IN  IF e = "running"
              THEN pair'.promises[n].pc = "polling"
              ELSE pair'.promises[n].pc = "done" /\ EndedAs(pair'.promises[n], e)

\* A step in which call n is answered nothing leaves its locals and its promise
\* as they were
UntouchedByOther ==
    \A n \in Calls :
       pair'.heard[n] = pair.heard[n]
       => /\ Locals(pair', n) = Locals(pair, n)
          /\ pair'.promises[n] = pair.promises[n]

\* C26: two poll calls (sunoService.ts, geminiService.ts) running interleaved
\* share no mutable state: the attempt counter, the consecutive-error counter and
\* the last known status of one call are never changed by a step of the other,
\* and each call is where its own answers alone put it and ends when, and the
\* way, they alone say.
C26_InterleavedCallsIndependent ==
    [][(variant \in {"suno", "gemini"})
          => (UntouchedByOther /\ EndsOnOwnAnswers /\ OwnAnswersOnly')]_vars

\* Call 1 has counted its fifth non-2xx answer and waits for the body while
\* call 2 has run two passes of its own
C26_Witness ==
    /\ variant = "suno"
    /\ pair.promises[1].pc = "reading"
    /\ pair.frames[1].i = 4
    /\ pair.frames[1].consecutiveErrors = 5
    /\ pair.heard[1].failedRun = 5
    /\ pair.promises[2].pc = "polling"
    /\ pair.frames[2].i = 2
    /\ pair.frames[2].consecutiveErrors = 1
    /\ pair.frames[2].lastKnown.status = "PENDING"
    /\ pair.heard[2].requests = 2

----------------------------------------------------------------------------
(* C27 *)

\* What the page shows of the analysis
Page(a) == <<a.isLoading, a.error, a.analysis>>

C27_Step ==
    \A n \in 1..Len(app.runs) :
       LET before == app.runs[n]
           after == app'.runs[n]
           fires == before.timer = "armed" /\ after.timer = "fired"
           settles == before.req = "pending" /\ after.req # "pending"
       IN  /\ (fires /\ before.req = "pending")
              => /\ app'.error = "An error occurred: Gemini analysis timeout"
                 /\ app'.analysis = app.analysis
                 /\ after.req = "pending"
           /\ (settles /\ before.timer = "fired") => Page(app') = Page(app)
           /\ (fires /\ before.req # "pending") => Page(app') = Page(app)

\* C27: handleAnalyzeScript races the analysis against the 120 s deadline: when
\* the deadline fires first the timeout error is shown and the request stays in
\* flight, its later result or error changes nothing on the page, and a deadline
\* firing after the analysis settled changes nothing either.
C27_DeadlineRace == [][C27_Step]_vars

C27_Witness ==
    /\ Len(app.runs) = 1
    /\ app.runs[1].timer = "fired"
    /\ app.runs[1].delay = 120000
    /\ app.runs[1].race = "deadline"
    /\ app.runs[1].req = "resolved"
    /\ app.error = "An error occurred: Gemini analysis timeout"
    /\ app.analysis = Null
    /\ ~app.isLoading

----------------------------------------------------------------------------
(* C28 *)

\* The polling interval of each variant, in milliseconds
IntervalOf(v) == IF v = "udio" THEN 10000 ELSE 5000

\* C28: within one poll call of any variant at most one status request is in
\* flight, every request (the first included) is preceded by one sleep of the
\* fixed interval, and the interval is the same after failures.
C28_SequentialFixedInterval ==
    /\ timeline.inFlight \in {0, 1}
    /\ timeline.inFlight = 1 <=> timeline.phase = "inflight"
    /\ timeline.sleeps = timeline.sent + (IF timeline.phase = "slept" THEN 1 ELSE 0)
    /\ timeline.elapsed = timeline.sleeps * IntervalOf(variant)
    /\ requests = timeline.sent - timeline.inFlight

C28_Witness ==
    /\ variant = "suno"
    /\ timeline.phase = "inflight"
    /\ timeline.sent = 4
    /\ timeline.sleeps = 4
    /\ timeline.elapsed = 20000
    /\ consecutiveErrors = 3
    /\ failedRun = 3

----------------------------------------------------------------------------
(* C29 *)

\* C29: in pollForMusic of sunoService.ts and geminiService.ts the
\* consecutive-error counter is between 0 and 5 in every reachable state, and no
\* attempt starts with the counter at 5 or more: at 5 the call has been rejected.
C29_CounterBounded ==
    variant \in {"suno", "gemini"}
    => /\ consecutiveErrors \in 0..5
       /\ pc = "polling" => consecutiveErrors < 5
       /\ consecutiveErrors = 5 => (IsRejected /\ RepeatedFailure)

----------------------------------------------------------------------------
(* C30 *)

\* C30: pollForTrack of udioService.ts returns only the audio URL of a feed entry
\* whose id is the polled workId and whose status is SUCCESS; an answer without
\* an entry of that id never ends the loop.
C30_UdioReturnsOwnTrack ==
    variant = "udio"
    => /\ IsReturned
          => /\ audioUrl # ""
             /\ \E p \in 1..Len(last.feed) :
                   /\ last.feed[p].id = TaskId
                   /\ last.feed[p].status = "SUCCESS"
                   /\ last.feed[p].audio_url = audioUrl
       /\ (last.kind \in {"ok", "code"} /\ ~HasEntry)
          => (pc = "polling" \/ TimedOut)

C30_Witness ==
    /\ variant = "udio"
    /\ IsReturned
    /\ Len(last.feed) = 2
    /\ last.feed[1].id = OtherId
    /\ last.feed[1].status = "SUCCESS"
    /\ last.feed[1].audio_url # ""
    /\ last.feed[2].id = TaskId
    /\ audioUrl = last.feed[2].audio_url

----------------------------------------------------------------------------
(* C32 *)

\* What analyzeScriptAndGeneratePrompts was handed has something to analyse
HasInput(run) == Trim(run.script) # "" \/ run.video

\* C32: handleAnalyzeScript invokes analyzeScriptAndGeneratePrompts only with a
\* non-blank script or a video file, for every combination of script text,
\* uploaded video and the use-video checkbox.
C32_NeverCalledWithNeither ==
    \A n \in 1..Len(app.runs) : HasInput(app.runs[n])

----------------------------------------------------------------------------
(* C33 *)

\* Exactly one of analysis and error is set
OneOfAnalysisOrError(a) == (a.analysis # Null) # (a.error # Null)

C33_Step == (app.isLoading /\ ~app'.isLoading) => OneOfAnalysisOrError(app')

\* C33: once handleAnalyzeScript started an analysis, isLoading eventually
\* returns to false on every outcome, also when the analysis service never
\* responds (the deadline then settles the race), and exactly one of analysis
\* and error is set at the step that returns it to false.
C33_LoadingEnds == (app.isLoading ~> ~app.isLoading) /\ [][C33_Step]_vars

C33_Witness ==
    /\ Len(app.runs) = 1
    /\ app.runs[1].req = "pending"
    /\ app.runs[1].timer = "fired"
    /\ app.runs[1].race = "deadline"
    /\ ~app.isLoading
    /\ app.error # Null
    /\ app.analysis = Null

----------------------------------------------------------------------------
(* C31 *)

\* C31: in handleGenerate no service call is made with an empty API key;
\* pollForTrack is called only after generateTrack resolved, with the id it
\* returned; isGenerating is true exactly while the flow runs and false after
\* it on every path; with a key, audioUrl is set only when polling resolved and
\* error only when a step rejected.
C31_GenerateFlow ==
    LET calls == panel.calls
    IN  /\ \A n \in 1..Len(calls) : calls[n].key # ""
        /\ Len(calls) <= 2
        /\ \A n \in 1..Len(calls) :
              /\ calls[n].fn = "generateTrack" <=> n = 1
              /\ calls[n].fn = "pollForTrack"
                 => /\ n = 2
                    /\ panel.returned \in WorkIds
                    /\ calls[n].arg = panel.returned
                    /\ calls[n].key = calls[1].key
        /\ panel.flow = "no-key" => calls = << >> /\ ~panel.isGenerating
        /\ panel.isGenerating <=> panel.flow \in {"submitting", "polling"}
        /\ panel.isGenerating => Len(calls) = (IF panel.flow = "polling" THEN 2 ELSE 1)
        /\ panel.audioUrl # Null => panel.flow = "success" /\ Len(calls) = 2
        /\ panel.flow = "success" => panel.error = Null
        /\ (panel.error # Null /\ panel.flow # "no-key")
           => /\ panel.flow \in {"submit-error", "poll-error"}
              /\ panel.audioUrl = Null
        /\ panel.flow \in {"submit-error", "poll-error"} => panel.error # Null
        /\ panel.flow = "submit-error" => Len(calls) = 1

C31_Witness ==
    /\ panel.flow = "poll-error"
    /\ Len(panel.calls) = 2
    /\ panel.calls[1].key = "sk-1"
    /\ panel.calls[2] = ServiceCall("pollForTrack", "work-2", "sk-1")
    /\ panel.apiKey = "sk-2"
    /\ panel.error = "Failed to generate music"
    /\ panel.audioUrl = Null
    /\ ~panel.isGenerating

----------------------------------------------------------------------------
(* C34 *)

\* C34: the api/gemini-analyze handler sends exactly one response per request
\* and makes at most one upstream call, only after every check passed, in this
\* order: the method is POST (else 405), GEMINI_API_KEY is configured (else
\* 500), a string body parses as JSON (else 400), a non-blank scriptText or a
\* video is present (else 400); it answers 200 only when the upstream answered
\* with a success status and the JSON part of its text parsed.
C34_OneResponseInOrder ==
    LET r == api.req
        neither == r.body.scriptText \in {Absent, "", "  "} /\ ~r.body.video
        parses == r.body.kind # "garbled"
        passes == r.method = "POST" /\ r.key /\ parses /\ ~neither
    IN  /\ Len(api.sent) = (IF api.stage = "done" THEN 1 ELSE 0)
        /\ api.upstream \in {0, 1}
        /\ api.upstream = 1 => passes
        /\ api.stage = "awaiting" => api.upstream = 1
        /\ api.stage = "done"
           => LET status == api.sent[1].status
              IN  /\ r.method # "POST" => status = 405
                  /\ (r.method = "POST" /\ ~r.key) => status = 500
                  /\ (r.method = "POST" /\ r.key /\ ~parses) => status = 400
                  /\ (r.method = "POST" /\ r.key /\ parses /\ neither) => status = 400
                  /\ passes => api.upstream = 1
                  /\ status = 200
                     => /\ api.upstream = 1
                        /\ api.answer.kind = "answer"
                        /\ api.answer.ok
                        /\ ParsesAsJson(JsonSlice(ModelText(api.answer)))

C34_Witness ==
    /\ api.stage = "done"
    /\ api.req.method = "POST"
    /\ api.req.key
    /\ api.req.body = [kind |-> "string", scriptText |-> "  ", video |-> TRUE]
    /\ api.upstream = 1
    /\ api.answer.ok
    /\ ~api.answer.envelope
    /\ api.answer.text = <<"w", "{", "}">>
    /\ api.sent = <<Reply(200, "")>>

====
